---- MODULE Spec2Model ----
(***************************************************************************)
(* A model of the rules of eslint-plugin-qunit and of the helpers in       *)
(* lib/utils.js they share.                                                *)
(*                                                                         *)
(* The host (ESLint) walks one file's AST depth first and calls a rule's   *)
(* handlers on entering and on leaving each node.  The walk is modelled by *)
(* three variables: nodes, the nodes entered so far, each with the id of   *)
(* its nearest enclosing node that the rule under study subscribes to and  *)
(* the types of the nodes in between; ancestors, the ids of the nodes that *)
(* were entered and not yet left; and reports, what context.report was     *)
(* called with.  Every rule has a specification of its own that draws the  *)
(* file from a small alphabet of node shapes one node at a time.           *)
(***************************************************************************)
EXTENDS Integers, Sequences, FiniteSets, TLC

VARIABLES
    rule,               \* the rule whose run over the file this is
    nodes,              \* the AST nodes entered so far; a node's id is its index
    ancestors,          \* ids of the nodes entered and not yet left, innermost last
    reports,            \* the diagnostics passed to context.report, in order
    crashed,            \* TRUE once a handler threw: the rule's run of the file is over
    state               \* the variables the rule's create function declares

vars == <<rule, nodes, ancestors, reports, crashed, state>>

----------------------------------------------------------------------------
(* Bounds of the model. *)

\* resolve-async: the number of nodes of the file, and how deep they nest
MaxNodesResolveAsync == 4
MaxDepthResolveAsync == 3

\* no-hooks-from-ancestor-modules: the same
MaxNodesNoHooks == 4
MaxDepthNoHooks == 3

\* no-identical-names: the same
MaxNodesNoIdenticalNames == 4
MaxDepthNoIdenticalNames == 3

\* no-negated-ok: the same, and how deep the first argument of an
\* assertion nests
MaxNodesNoNegatedOk == 2
MaxDepthNoNegatedOk == 2
MaxDepthArgument == 3

\* no-conditional-assertions: the same
MaxNodesNoConditional == 4
MaxDepthNoConditional == 3
MaxNodesNoAssertEqualBoolean == 2
MaxDepthNoAssertEqualBoolean == 2
MaxNodesNoAssertEqual == 3
MaxDepthNoAssertEqual == 3
MaxNodesLiteralCompareOrder == 2
MaxDepthLiteralCompareOrder == 2
MaxParams == 2
MaxNodesNoAsyncInLoops == 4
MaxDepthNoAsyncInLoops == 3
MaxNodesRequireExpect == 5
MaxDepthRequireExpect == 4
MaxNodesNoOkEquality == 2
MaxDepthNoOkEquality == 2
MaxNodesNoQUnitStart == 4
MaxDepthNoQUnitStart == 4
MaxNodesNoLogical == 3
MaxDepthNoLogical == 3
MaxNodesAssertingRules == 3
MaxDepthAssertingRules == 3

----------------------------------------------------------------------------
(* ESTree node shapes. *)

Null == "<null>"

Identifier(name) == [type |-> "Identifier", name |-> name]

MemberExpression(object, property) ==
    [type |-> "MemberExpression", object |-> object, property |-> property]

\* object.property, both identifiers
Dot(object, property) ==
    MemberExpression(Identifier(object), Identifier(property))

\* an absent child (a declarator without initialiser)
NullNode == [type |-> Null]

\* kind is the typeof of the literal's value, value its source text
Literal(kind, value) == [type |-> "Literal", kind |-> kind, value |-> value]

FunctionExpression(params) ==
    [type |-> "FunctionExpression", params |-> params]

CallExpression(callee, arguments) ==
    [type |-> "CallExpression", callee |-> callee, arguments |-> arguments]

Property(key, value) == [type |-> "Property", key |-> key, value |-> value]

AssignmentExpression(left, right) ==
    [type |-> "AssignmentExpression", left |-> left, right |-> right]

VariableDeclarator(id, init) ==
    [type |-> "VariableDeclarator", id |-> id, init |-> init]

UnaryExpression(operator, argument) ==
    [type |-> "UnaryExpression", operator |-> operator,
     argument |-> argument]

SequenceExpression(expressions) ==
    [type |-> "SequenceExpression", expressions |-> expressions]

BinaryExpression(operator, left, right) ==
    [type |-> "BinaryExpression", operator |-> operator,
     left |-> left, right |-> right]

LogicalExpression(operator, left, right) ==
    [type |-> "LogicalExpression", operator |-> operator,
     left |-> left, right |-> right]

----------------------------------------------------------------------------
(* Source text, as the sequence of its tokens.  The file is written with    *)
(* the parentheses its syntax needs and no others: around a sequence        *)
(* expression that is the operand of an operator, an argument of a call or  *)
(* an expression of a sequence expression.                                  *)
(* A node's range, and so its text, holds no parentheses around itself.     *)

RECURSIVE Join(_, _)
Join(texts, separator) ==
    IF Len(texts) = 0 THEN <<>>
    ELSE IF Len(texts) = 1 THEN texts[1]
    ELSE texts[1] \o separator \o Join(Tail(texts), separator)

\* sourceCode.getText(node)
RECURSIVE getText(_)
getText(node) ==
    LET Operand(e) ==
            IF e.type = "SequenceExpression"
            THEN <<"(">> \o getText(e) \o <<")">>
            ELSE getText(e)
    IN CASE node.type = "Identifier" -> <<node.name>>
         [] node.type = "Literal" ->
                IF node.kind = "string"
                THEN <<"'" \o node.value \o "'">> ELSE <<node.value>>
         [] node.type = "MemberExpression" ->
                getText(node.object) \o <<".">> \o getText(node.property)
         [] node.type = "UnaryExpression" ->
                <<node.operator>> \o Operand(node.argument)
         [] node.type \in {"BinaryExpression", "LogicalExpression"} ->
                Operand(node.left) \o <<node.operator>>
                \o Operand(node.right)
         [] node.type = "SequenceExpression" ->
                Join([i \in 1..Len(node.expressions) |->
                         Operand(node.expressions[i])], <<",">>)
         [] node.type = "CallExpression" ->
                getText(node.callee) \o <<"(">>
                \o Join([i \in 1..Len(node.arguments) |->
                            Operand(node.arguments[i])], <<",">>)
                \o <<")">>
         [] OTHER -> <<"{}">>

----------------------------------------------------------------------------
(* The walk. *)

Top(stack) == IF Len(stack) = 0 THEN 0 ELSE stack[Len(stack)]

Pop(stack) == SubSeq(stack, 1, Len(stack) - 1)

\* The node that is entered next: shape below the innermost open node, with
\* the nodes of the types in between (innermost first) separating the two.
NewNode(shape, between) ==
    [ast |-> shape, parent |-> Top(ancestors), between |-> between]

\* node.parent, node.parent.parent, ... up to the Program node, as records
\* of the type and the id (0 for a node no handler of the rule is called on).
RECURSIVE ParentChain(_)
ParentChain(nd) ==
    [i \in 1..Len(nd.between) |-> [type |-> nd.between[i], id |-> 0]]
    \o (IF nd.parent = 0
        THEN <<[type |-> "Program", id |-> 0]>>
        ELSE <<[type |-> nodes[nd.parent].ast.type, id |-> nd.parent]>>
             \o ParentChain(nodes[nd.parent]))

\* what nodes keeps of a top-level statement the walk has moved on from
Forgotten == [ast |-> [type |-> "(forgotten)"], parent |-> 0, between |-> <<>>]

\* The walk enters nd, the nodes entered before it being kept as earlier.
EnterAfter(earlier, nd, maxNodes, maxDepth) ==
    /\ ~crashed
    /\ Len(nodes) < maxNodes
    /\ Len(ancestors) < maxDepth
    /\ nodes' = Append(earlier, nd)
    /\ ancestors' = Append(ancestors, Len(nodes) + 1)
    /\ UNCHANGED rule

\* The walk enters nd, for a rule that keeps no reference to the nodes of a
\* top-level statement it has left: on entering a top-level statement, the
\* nodes of the statements before it are forgotten; they keep their ids.
Enter(nd, maxNodes, maxDepth) ==
    EnterAfter(IF Len(ancestors) = 0
               THEN [i \in 1..Len(nodes) |-> Forgotten]
               ELSE nodes,
               nd, maxNodes, maxDepth)

Leave ==
    /\ ~crashed
    /\ Len(ancestors) > 0
    /\ ancestors' = Pop(ancestors)
    /\ UNCHANGED <<rule, nodes>>

WalkInit(name) ==
    /\ rule = name
    /\ nodes = <<>>
    /\ ancestors = <<>>
    /\ reports = <<>>
    /\ crashed = FALSE

\* The node a handler is called with on leaving: the innermost open one.
Leaving == nodes[Top(ancestors)]

\* The statement chain between a call (or assignment) statement and the
\* node the walk is in: the file itself, or the body of a callback function.
StatementIn(stmt) ==
    IF Len(ancestors) = 0
    THEN <<stmt>>
    ELSE <<stmt, "BlockStatement", "FunctionExpression">>

----------------------------------------------------------------------------
(* JavaScript numbers, as far as the rules compute with them. *)

Num(i) == [nan |-> FALSE, int |-> i]

NaN == [nan |-> TRUE, int |-> 0]

Plus(a, b) == IF a.nan \/ b.nan THEN NaN ELSE Num(a.int + b.int)

Negate(a) == IF a.nan THEN NaN ELSE Num(0 - a.int)

GreaterThan(a, i) == ~a.nan /\ a.int > i

\* unary plus applied to an AST node: ToNumber of an object that is no
\* primitive wrapper goes through "[object Object]" and is NaN
UnaryPlus(node) == NaN

Digits == <<"0", "1", "2", "3", "4", "5", "6", "7", "8", "9">>

\* Number.prototype.toString of a non-negative integer
RECURSIVE NumberToString(_)
NumberToString(i) ==
    IF i < 10 THEN Digits[i + 1]
    ELSE NumberToString(i \div 10) \o Digits[(i % 10) + 1]

----------------------------------------------------------------------------
(* lib/utils.js: the call-shape classifier. *)

SUPPORTED_TEST_IDENTIFIERS == {"test", "asyncTest", "only"}

OLD_MODULE_HOOK_IDENTIFIERS == {"setup", "teardown"}

NEW_MODULE_HOOK_IDENTIFIERS == {"before", "beforeEach", "afterEach", "after"}

ALL_MODULE_HOOK_IDENTIFIERS ==
    OLD_MODULE_HOOK_IDENTIFIERS \cup NEW_MODULE_HOOK_IDENTIFIERS

\* The shape isStop, isStart, isTest, isModule and isAsyncTest share: an
\* identifier of the set, or QUnit.<identifier of the set>.
IsBareOrQUnit(calleeNode, names) ==
    IF calleeNode.type = "Identifier" THEN calleeNode.name \in names
    ELSE IF calleeNode.type = "MemberExpression"
    THEN /\ calleeNode.object.type = "Identifier"
         /\ calleeNode.object.name = "QUnit"
         /\ calleeNode.property.type = "Identifier"
         /\ calleeNode.property.name \in names
    ELSE FALSE

isStop(calleeNode) == IsBareOrQUnit(calleeNode, {"stop"})

\* isStart without the QUnit.start() form
isStart_BareOnly(calleeNode) ==
    calleeNode.type = "Identifier" /\ calleeNode.name = "start"

isStart(calleeNode) == IsBareOrQUnit(calleeNode, {"start"})

isTest(calleeNode) == IsBareOrQUnit(calleeNode, SUPPORTED_TEST_IDENTIFIERS)

isModule(calleeNode) == IsBareOrQUnit(calleeNode, {"module"})

\* isAsyncTest without the QUnit.asyncTest() form
isAsyncTest_BareOnly(calleeNode) ==
    calleeNode.type = "Identifier" /\ calleeNode.name = "asyncTest"

isAsyncTest(calleeNode) == IsBareOrQUnit(calleeNode, {"asyncTest"})

isModuleHookPropertyKey(identifierNode) ==
    /\ identifierNode.type = "Identifier"
    /\ identifierNode.name \in ALL_MODULE_HOOK_IDENTIFIERS

\* propertyNode.parent.parent is a call of module
isInModule(nd) ==
    LET chain == ParentChain(nd)
    IN /\ Len(chain) >= 2
       /\ chain[2].type = "CallExpression"
       /\ isModule(nodes[chain[2].id].ast.callee)

IsFunctionLike(node) ==
    node.type \in {"FunctionExpression", "ArrowFunctionExpression"}

\* Array.prototype.find: the first element that satisfies Test, else orElse
Find(seq, Test(_), orElse) ==
    LET hits == {i \in 1..Len(seq) : Test(seq[i])}
    IN IF hits = {} THEN orElse
       ELSE seq[CHOOSE i \in hits : \A j \in hits : i <= j]

getAssertContextName(functionExpr) ==
    IF IsFunctionLike(functionExpr)
    THEN LET IsHooksParam(p) == p.type = "Identifier" /\ p.name # "this"
             hooksParam == Find(functionExpr.params, IsHooksParam, NullNode)
         IN IF hooksParam.type = "Identifier" THEN hooksParam.name ELSE Null
    ELSE Null

getAssertContextNameForTest(argumentsNodes) ==
    LET functionExpr == Find(argumentsNodes, IsFunctionLike, NullNode)
    IN IF functionExpr = NullNode THEN Null
       ELSE getAssertContextName(functionExpr)

\* the keys of ASSERTION_METADATA in the order they are written, each with
\* its descriptor
ASSERTION_METADATA ==
    LET Comparing(name) ==
            [key |-> name,
             value |-> [allowedArities |-> <<2>>, compareActualFirst |-> TRUE]]
        Plain(name, arities) ==
            [key |-> name, value |-> [allowedArities |-> arities]]
    IN <<Comparing("deepEqual"), Comparing("equal"), Plain("false", <<1>>),
         Comparing("notDeepEqual"), Comparing("notEqual"),
         Plain("notOk", <<1>>), Comparing("notPropEqual"),
         Comparing("notStrictEqual"), Plain("ok", <<1>>),
         Comparing("propEqual"), Comparing("strictEqual"),
         Plain("raises", <<1, 2>>), Plain("throws", <<1, 2>>),
         Plain("true", <<1>>)>>

\* Object.hasOwnProperty.call(ASSERTION_METADATA, name)
HasAssertion(name) ==
    \E i \in 1..Len(ASSERTION_METADATA) : ASSERTION_METADATA[i].key = name

\* the descriptor of the assertion called, NullNode for null
getAssertionMetadata(calleeNode, assertVar) ==
    LET Of(name) ==
            ASSERTION_METADATA[
                CHOOSE i \in 1..Len(ASSERTION_METADATA) :
                    ASSERTION_METADATA[i].key = name].value
    IN IF calleeNode.type = "MemberExpression"
       THEN IF /\ calleeNode.object.type = "Identifier"
               /\ calleeNode.object.name = assertVar
               /\ calleeNode.property.type = "Identifier"
               /\ HasAssertion(calleeNode.property.name)
            THEN Of(calleeNode.property.name)
            ELSE NullNode
       ELSE IF calleeNode.type = "Identifier" /\ HasAssertion(calleeNode.name)
       THEN Of(calleeNode.name)
       ELSE NullNode

utils_isAssertion(calleeNode, assertVar) ==
    getAssertionMetadata(calleeNode, assertVar) # NullNode

\* Object.hasOwnProperty.call(assertionMetadata, "compareActualFirst");
\* callers pass the callee of an assertion, so the descriptor is not null
isComparativeAssertion(calleeNode, assertVar) ==
    "compareActualFirst"
        \in DOMAIN getAssertionMetadata(calleeNode, assertVar)

shouldCompareActualFirst(calleeNode, assertVar) ==
    LET assertionMetadata == getAssertionMetadata(calleeNode, assertVar)
    IN IF assertionMetadata = NullNode THEN FALSE
       ELSE IF "compareActualFirst" \in DOMAIN assertionMetadata
       THEN assertionMetadata.compareActualFirst
       ELSE FALSE

utils_isAsyncCallExpression(callExpressionNode, assertVar) ==
    LET var == IF assertVar = Null THEN "assert" ELSE assertVar
    IN /\ callExpressionNode.type = "CallExpression"
       /\ callExpressionNode.callee.type = "MemberExpression"
       /\ callExpressionNode.callee.object.type = "Identifier"
       /\ callExpressionNode.callee.object.name = var
       /\ callExpressionNode.callee.property.type = "Identifier"
       /\ callExpressionNode.callee.property.name = "async"

----------------------------------------------------------------------------
(* A JavaScript object used as a map: its own string keys in insertion      *)
(* order, each with a value.  Keys are never names of Object.prototype.     *)

HasKey(obj, key) == \E i \in 1..Len(obj) : obj[i].key = key

\* obj[key] = value that adds the key whether or not it is known
Put_Again(obj, key, value) == Append(obj, [key |-> key, value |-> value])

\* obj[key] = value: a new key goes last, a known key keeps its place
Put(obj, key, value) ==
    IF HasKey(obj, key)
    THEN [i \in 1..Len(obj) |->
            IF obj[i].key = key THEN [key |-> key, value |-> value] ELSE obj[i]]
    ELSE Append(obj, [key |-> key, value |-> value])

----------------------------------------------------------------------------
(* lib/rules/resolve-async.js *)

\* one AsyncState per test or module hook the walk is in
asyncStateStack == state.asyncStateStack

\* asyncStateStack[asyncStateStack.length - 1], or the stack as it is when
\* there is none
WithTopAsyncState(Change(_)) ==
    IF Len(asyncStateStack) = 0 THEN asyncStateStack
    ELSE [asyncStateStack EXCEPT ![Len(asyncStateStack)] = Change(@)]

ResolveAsync_isAsyncCallExpression(callExpressionNode) ==
    /\ Len(asyncStateStack) > 0
    /\ asyncStateStack[Len(asyncStateStack)].assertContextVar # Null
    /\ utils_isAsyncCallExpression(callExpressionNode,
            asyncStateStack[Len(asyncStateStack)].assertContextVar)

getAsyncCallbackVarOrNull(calleeNode) ==
    IF Len(asyncStateStack) = 0 THEN Null
    ELSE LET asyncState == asyncStateStack[Len(asyncStateStack)]
         IN IF /\ calleeNode.type = "Identifier"
               /\ HasKey(asyncState.asyncCallbackVars, calleeNode.name)
            THEN calleeNode.name
            ELSE IF calleeNode.type = "MemberExpression"
            THEN LET isCallOrApply ==
                         /\ calleeNode.property.type = "Identifier"
                         /\ calleeNode.property.name \in {"call", "apply"}
                 IN IF calleeNode.object.type # "Identifier" THEN Null
                    ELSE IF /\ isCallOrApply
                            /\ HasKey(asyncState.asyncCallbackVars,
                                      calleeNode.object.name)
                    THEN calleeNode.object.name
                    ELSE Null
            ELSE Null

\* incrementSemaphoreCount that counts in every open frame
incrementSemaphoreCount_EveryFrame(amount) ==
    [k \in 1..Len(asyncStateStack) |->
        [asyncStateStack[k] EXCEPT !.stopSemaphoreCount = Plus(@, amount)]]

incrementSemaphoreCount(amount) ==
    LET Change(asyncState) ==
            [asyncState EXCEPT !.stopSemaphoreCount = Plus(@, amount)]
    IN WithTopAsyncState(Change)

\* addAsyncCallbackVar that leaves a variable it knows as it is
addAsyncCallbackVar_KeepsKnown(lhsNode) ==
    LET Change(asyncState) ==
            [asyncState EXCEPT
                !.asyncCallbackVars =
                    IF HasKey(@, lhsNode.name) THEN @
                    ELSE Put(@, lhsNode.name, FALSE)]
    IN IF lhsNode.type = "Identifier" THEN WithTopAsyncState(Change)
       ELSE asyncStateStack

addAsyncCallbackVar(lhsNode) ==
    LET Change(asyncState) ==
            [asyncState EXCEPT
                !.asyncCallbackVars = Put(@, lhsNode.name, FALSE)]
    IN IF lhsNode.type = "Identifier" THEN WithTopAsyncState(Change)
       ELSE asyncStateStack

markAsyncCallbackVarCalled(name) ==
    LET Change(asyncState) ==
            [asyncState EXCEPT !.asyncCallbackVars = Put(@, name, TRUE)]
    IN WithTopAsyncState(Change)

\* the diagnostics verifyAsyncState reports on the node with this id
verifyAsyncState(asyncState, node) ==
    LET singular == asyncState.stopSemaphoreCount = Num(1)
        NotCalled(entry) == entry.value = FALSE
        notCalled == SelectSeq(asyncState.asyncCallbackVars, NotCalled)
    IN (IF GreaterThan(asyncState.stopSemaphoreCount, 0)
        THEN <<[node |-> node, messageId |-> "needMoreStartCalls",
                data |-> [semaphore |->
                              NumberToString(asyncState.stopSemaphoreCount.int),
                          callOrCalls |->
                              IF singular THEN "call" ELSE "calls"]]>>
        ELSE <<>>)
       \o [i \in 1..Len(notCalled) |->
              [node |-> node, messageId |-> "asyncCallbackNotCalled",
               data |-> [asyncVar |-> notCalled[i].key]]]

\* the amount a stop or start call changes the semaphore by
Delta(node) ==
    IF Len(node.arguments) > 0 THEN UnaryPlus(node.arguments[1]) ELSE Num(1)

\* What the file may hold below the innermost open node: statements in the
\* file itself and in the callback of a test or a hook, properties in the
\* object passed to a call.
ResolveAsync_InBody ==
    IF Len(ancestors) = 0 THEN TRUE
    ELSE IF Leaving.ast.type = "CallExpression"
    THEN /\ Len(Leaving.ast.arguments) > 0
         /\ IsFunctionLike(Leaving.ast.arguments[Len(Leaving.ast.arguments)])
    ELSE Leaving.ast.type = "Property"

ResolveAsync_InObject ==
    /\ Len(ancestors) > 0
    /\ Leaving.ast.type = "CallExpression"
    /\ Len(Leaving.ast.arguments) > 0
    /\ Leaving.ast.arguments[Len(Leaving.ast.arguments)].type
           = "ObjectExpression"

TestCall(callee, params) ==
    CallExpression(callee,
        <<Literal("string", "a"), FunctionExpression(params)>>)

ModuleCall(callee) ==
    CallExpression(callee,
        <<Literal("string", "m"), [type |-> "ObjectExpression"]>>)

\* The files of the specification of the semaphore: tests and hooks that
\* hold stop and start calls.  Outside every test and hook the rule does
\* nothing, so the file itself holds tests, modules and one stray stop();
\* a test or hook holds stop and start calls, a test and a module.
ResolveAsync_SemaphoreCalls ==
    IF Len(ancestors) = 0
    THEN {TestCall(callee, <<Identifier("assert")>>) :
            callee \in {Identifier("test"), Dot("QUnit", "test"),
                        Identifier("asyncTest"), Dot("QUnit", "asyncTest"),
                        Identifier("only"), Dot("QUnit", "only")}}
         \cup {ModuleCall(Dot("QUnit", "module")),
               ModuleCall(Identifier("extend")),
               CallExpression(Identifier("stop"), <<>>)}
    ELSE {CallExpression(callee, arguments) :
            callee \in {Identifier("stop"), Identifier("start")},
            arguments \in {<<>>, <<Literal("number", "2")>>}}
         \cup {CallExpression(Dot("QUnit", "stop"), <<>>),
               CallExpression(Dot("QUnit", "start"), <<>>),
               TestCall(Identifier("asyncTest"), <<Identifier("assert")>>),
               ModuleCall(Identifier("module"))}

\* The files of the specification of the callbacks: tests and hooks that
\* take assert.async() callbacks and call them.
ResolveAsync_CallbackCalls ==
    IF Len(ancestors) = 0
    THEN {TestCall(Identifier("test"), <<>>),
          TestCall(Identifier("test"), <<Identifier("assert")>>),
          ModuleCall(Identifier("module")),
          CallExpression(Identifier("done"), <<>>)}
    ELSE {CallExpression(callee, <<>>) :
            callee \in {Identifier("done"), Dot("done", "call"),
                        Dot("cb", "apply"), Dot("done", "bind"),
                        MemberExpression(Dot("self", "done"),
                                         Identifier("call")),
                        Identifier("stop")}}
         \cup {TestCall(Identifier("test"), <<Identifier("assert")>>)}

ResolveAsync_Init ==
    /\ WalkInit("resolve-async")
    /\ state = [asyncStateStack |-> <<>>]

ResolveAsync_CallExpression(calls) ==
    \E node \in calls :
        LET callbackVar == getAsyncCallbackVarOrNull(node.callee)
        IN /\ ResolveAsync_InBody
           /\ Enter(NewNode(node, StatementIn("ExpressionStatement")),
                    MaxNodesResolveAsync, MaxDepthResolveAsync)
           /\ state' = [asyncStateStack |->
                IF isTest(node.callee)
                THEN Append(asyncStateStack,
                        [stopSemaphoreCount |->
                             IF isAsyncTest(node.callee)
                             THEN Num(1) ELSE Num(0),
                         asyncCallbackVars |-> <<>>,
                         assertContextVar |->
                             getAssertContextNameForTest(node.arguments)])
                ELSE IF callbackVar # Null
                THEN markAsyncCallbackVarCalled(callbackVar)
                ELSE IF isStop(node.callee)
                THEN incrementSemaphoreCount(Delta(node))
                ELSE IF isStart(node.callee)
                THEN incrementSemaphoreCount(Negate(Delta(node)))
                ELSE asyncStateStack]
           /\ UNCHANGED <<reports, crashed>>

\* what both exit handlers do for a node that opened a frame
ResolveAsync_PopAndVerify ==
    IF Len(asyncStateStack) = 0
    THEN UNCHANGED <<state, reports>>
    ELSE /\ state' = [asyncStateStack |-> Pop(asyncStateStack)]
         /\ reports' = reports \o
                verifyAsyncState(asyncStateStack[Len(asyncStateStack)],
                                 Top(ancestors))

ResolveAsync_CallExpressionExit ==
    /\ Leave
    /\ Leaving.ast.type = "CallExpression"
    /\ IF isTest(Leaving.ast.callee)
       THEN ResolveAsync_PopAndVerify
       ELSE UNCHANGED <<state, reports>>
    /\ UNCHANGED crashed

ResolveAsync_Property ==
    \E key \in {"beforeEach", "helper"},
       between \in {<<"ObjectExpression">>,
                    <<"ObjectExpression", "Property", "ObjectExpression">>} :
        LET nd == NewNode(Property(Identifier(key),
                              FunctionExpression(<<Identifier("assert")>>)),
                          between)
        IN /\ ResolveAsync_InObject
           /\ Enter(nd, MaxNodesResolveAsync, MaxDepthResolveAsync)
           /\ state' = [asyncStateStack |->
                IF isModuleHookPropertyKey(nd.ast.key) /\ isInModule(nd)
                THEN Append(asyncStateStack,
                        [stopSemaphoreCount |-> Num(0),
                         asyncCallbackVars |-> <<>>,
                         assertContextVar |->
                             getAssertContextName(nd.ast.value)])
                ELSE asyncStateStack]
           /\ UNCHANGED <<reports, crashed>>

ResolveAsync_PropertyExit ==
    /\ Leave
    /\ Leaving.ast.type = "Property"
    /\ IF isModuleHookPropertyKey(Leaving.ast.key) /\ isInModule(Leaving)
       THEN ResolveAsync_PopAndVerify
       ELSE UNCHANGED <<state, reports>>
    /\ UNCHANGED crashed

ResolveAsync_AssignmentExpression ==
    \E left \in {Identifier("done"), Dot("self", "done")},
       right \in {CallExpression(Dot("assert", "async"), <<>>),
                  CallExpression(Dot("other", "async"), <<>>)} :
        /\ ResolveAsync_InBody
        /\ Len(ancestors) > 0
        /\ Enter(NewNode(AssignmentExpression(left, right),
                         StatementIn("ExpressionStatement")),
                 MaxNodesResolveAsync, MaxDepthResolveAsync)
        /\ state' = [asyncStateStack |->
             IF ResolveAsync_isAsyncCallExpression(right)
             THEN IF left.type # "Identifier" THEN asyncStateStack
                  ELSE addAsyncCallbackVar(left)
             ELSE asyncStateStack]
        /\ UNCHANGED <<reports, crashed>>

ResolveAsync_VariableDeclarator ==
    \E id \in {Identifier("cb"), [type |-> "ObjectPattern"]},
       init \in {CallExpression(Dot("assert", "async"), <<>>), NullNode} :
        /\ ResolveAsync_InBody
        /\ Len(ancestors) > 0
        /\ Enter(NewNode(VariableDeclarator(id, init),
                         StatementIn("VariableDeclaration")),
                 MaxNodesResolveAsync, MaxDepthResolveAsync)
        /\ state' = [asyncStateStack |->
             IF init # NullNode /\ ResolveAsync_isAsyncCallExpression(init)
             THEN IF id.type # "Identifier" THEN asyncStateStack
                  ELSE addAsyncCallbackVar(id)
             ELSE asyncStateStack]
        /\ UNCHANGED <<reports, crashed>>

\* leaving a node the rule has no exit handler for
ResolveAsync_Leave ==
    /\ Leave
    /\ Leaving.ast.type \in {"AssignmentExpression", "VariableDeclarator"}
    /\ UNCHANGED <<state, reports, crashed>>

ResolveAsync_SemaphoreNext ==
    \/ ResolveAsync_CallExpression(ResolveAsync_SemaphoreCalls)
    \/ ResolveAsync_CallExpressionExit
    \/ ResolveAsync_Property
    \/ ResolveAsync_PropertyExit

SpecResolveAsyncSemaphore ==
    ResolveAsync_Init /\ [][ResolveAsync_SemaphoreNext]_vars

ResolveAsync_CallbackNext ==
    \/ ResolveAsync_CallExpression(ResolveAsync_CallbackCalls)
    \/ ResolveAsync_CallExpressionExit
    \/ ResolveAsync_Property
    \/ ResolveAsync_PropertyExit
    \/ ResolveAsync_AssignmentExpression
    \/ ResolveAsync_VariableDeclarator
    \/ ResolveAsync_Leave

SpecResolveAsyncCallbacks ==
    ResolveAsync_Init /\ [][ResolveAsync_CallbackNext]_vars

----------------------------------------------------------------------------
(* The file as the claims read it: the tree of the nodes walked, told from *)
(* the nodes' shapes alone.                                                 *)

Live(i) == nodes[i].ast.type # "(forgotten)"

Open(i) == \E k \in 1..Len(ancestors) : ancestors[k] = i

\* the walk has entered and left node i of the statement it is in
Left(i) == Live(i) /\ ~Open(i)

\* a call of one of the names, bare or QUnit-qualified
Calls(node, names) ==
    /\ node.type = "CallExpression"
    /\ node.callee \in {Identifier(n) : n \in names}
                       \cup {Dot("QUnit", n) : n \in names}

IsTestCall(i) == Calls(nodes[i].ast, {"test", "asyncTest", "only"})

\* a hook of the object passed to a module call
IsHook(i) ==
    /\ nodes[i].ast.type = "Property"
    /\ nodes[i].ast.key \in
           {Identifier(k) : k \in {"setup", "teardown", "before",
                                   "beforeEach", "afterEach", "after"}}
    /\ nodes[i].between = <<"ObjectExpression">>
    /\ nodes[i].parent # 0
    /\ Calls(nodes[nodes[i].parent].ast, {"module"})

IsFrame(i) == Live(i) /\ (IsTestCall(i) \/ IsHook(i))

Frames == {f \in 1..Len(nodes) : IsFrame(f)}

\* the innermost test or hook node i lies in, 0 when it lies in none
RECURSIVE FrameOf(_)
FrameOf(i) ==
    LET p == nodes[i].parent
    IN IF p = 0 THEN 0 ELSE IF IsFrame(p) THEN p ELSE FrameOf(p)

\* the nodes visited while test or hook f is the innermost one
Body(f) == {i \in 1..Len(nodes) : Live(i) /\ FrameOf(i) = f}

ReportsOn(f, messageId) ==
    LET Mine(r) == r.node = f /\ r.messageId = messageId
    IN SelectSeq(reports, Mine)

----------------------------------------------------------------------------
(* resolve-async: the semaphore. *)

StopsIn(f) == {i \in Body(f) : Calls(nodes[i].ast, {"stop"})}

StartsIn(f) == {i \in Body(f) : Calls(nodes[i].ast, {"start"})}

Argless(calls) == {i \in calls : nodes[i].ast.arguments = <<>>}

\* the value of a numeric literal
LiteralNumber(literal) ==
    CHOOSE n \in 0..9 : NumberToString(n) = literal.value

RECURSIVE Sum(_, _)
Sum(Amount(_), set) ==
    IF set = {} THEN 0
    ELSE LET i == CHOOSE i \in set : TRUE
         IN Amount(i) + Sum(Amount, set \ {i})

\* the count a stop or start call names: its argument, 1 without one
CountOf(i) ==
    IF nodes[i].ast.arguments = <<>> THEN 1
    ELSE LiteralNumber(nodes[i].ast.arguments[1])

\* the semaphore of test or hook f, by the counts its calls name
Semaphore(f) ==
    (IF Calls(nodes[f].ast, {"asyncTest"}) THEN 1 ELSE 0)
    + Sum(CountOf, StopsIn(f)) - Sum(CountOf, StartsIn(f))

NeedMoreStartCalls(f, semaphore) ==
    [node |-> f, messageId |-> "needMoreStartCalls",
     data |-> [semaphore |-> NumberToString(semaphore),
               callOrCalls |-> IF semaphore = 1 THEN "call" ELSE "calls"]]

\* f is reported once it is left, if and only if its semaphore is positive,
\* with the semaphore as the count
ReportedBySemaphore(f) ==
    ReportsOn(f, "needMoreStartCalls") =
        IF Left(f) /\ Semaphore(f) > 0
        THEN <<NeedMoreStartCalls(f, Semaphore(f))>>
        ELSE <<>>

\* C1: a test or hook whose stop and start calls all go without argument is
\* reported as needing more start calls when it is left, if and only if its
\* semaphore is then positive: 1 for asyncTest and 0 otherwise at the start,
\* one up for each stop() and one down for each start() visited while it is
\* the innermost test or hook.  The count reported is the semaphore, and the
\* wording is "call" exactly for 1.
C1_NeedMoreStartCalls ==
    \A f \in Frames :
        StopsIn(f) \cup StartsIn(f) = Argless(StopsIn(f) \cup StartsIn(f))
            => ReportedBySemaphore(f)

\* an asyncTest left with a stop() in it and, inside a nested test or a
\* hook, a start() that does not count for it: reported with "calls"
C1_Witness ==
    \E f \in Frames :
        /\ Left(f)
        /\ Semaphore(f) = 2
        /\ StopsIn(f) = Argless(StopsIn(f))
        /\ ReportsOn(f, "needMoreStartCalls") # <<>>
        /\ \E g \in Body(f) : IsFrame(g) /\ StartsIn(g) # {}

\* C4 as claimed: stop(N) raises the semaphore of the innermost test or hook
\* by N and start(N) lowers it by N: a test that holds stop(2); start(); is
\* reported as needing 1 more start() call.
C4_ExplicitCounts == \A f \in Frames : ReportedBySemaphore(f)

\* f holds one stop() directly followed by one start(), and nothing else
StopThenStart(f) ==
    \E a, b \in Body(f) :
        /\ a < b
        /\ Body(f) = {a, b}
        /\ a \in Argless(StopsIn(f))
        /\ b \in Argless(StartsIn(f))

\* C3 as claimed: a test registration (test, asyncTest or only, bare or
\* QUnit-qualified) that holds one stop() directly followed by one start()
\* is not reported.
C3_StopStartEveryTest ==
    \A f \in Frames :
        IsTestCall(f) /\ StopThenStart(f)
            => \A k \in 1..Len(reports) : reports[k].node # f

\* C3, amended: a test or only registration, bare or QUnit-qualified, that
\* holds one stop() directly followed by one start() is not reported; an
\* asyncTest registration that holds the same is reported as needing 1 more
\* start() call when it is left.
C3_StopStartBalanced ==
    \A f \in Frames :
        IsTestCall(f) /\ StopThenStart(f) /\ Left(f) =>
            LET mine == SelectSeq(reports, LAMBDA r : r.node = f)
            IN IF Calls(nodes[f].ast, {"asyncTest"})
               THEN mine = <<NeedMoreStartCalls(f, 1)>>
               ELSE mine = <<>>

C3_Witness ==
    \E f \in Frames :
        /\ Calls(nodes[f].ast, {"only"})
        /\ StopThenStart(f)
        /\ Left(f)
        /\ \E b \in StartsIn(f) : nodes[b].ast.callee = Dot("QUnit", "start")

----------------------------------------------------------------------------
(* resolve-async: the callbacks of assert.async(). *)

\* the function a test or a hook runs
CallbackOf(f) ==
    IF nodes[f].ast.type = "Property" THEN nodes[f].ast.value
    ELSE nodes[f].ast.arguments[2]

\* the name a test or hook binds the assert object to, Null when none
BoundAssertVar(f) ==
    LET named == SelectSeq(CallbackOf(f).params,
                           LAMBDA p : p # Identifier("this"))
    IN IF named = <<>> THEN Null ELSE named[1].name

\* node i assigns, or initialises, variable v with <boundAssertVar>.async()
TakesCallback(i, f, v) ==
    LET async == CallExpression(Dot(BoundAssertVar(f), "async"), <<>>)
        node == nodes[i].ast
    IN /\ BoundAssertVar(f) # Null
       /\ \/ node = AssignmentExpression(Identifier(v), async)
          \/ node = VariableDeclarator(Identifier(v), async)

\* node i calls v, directly or through .call or .apply on it
Invokes(i, v) ==
    /\ nodes[i].ast.type = "CallExpression"
    /\ nodes[i].ast.callee \in
           {Identifier(v), Dot(v, "call"), Dot(v, "apply")}

\* the variables of f that took a callback and were not invoked since
NotInvoked(f) ==
    {v \in {"done", "cb", "self", "stop"} :
        \E a \in Body(f) :
            /\ TakesCallback(a, f, v)
            /\ ~\E c \in Body(f) : c > a /\ Invokes(c, v)}

\* C2: when a test or hook is left, the variables reported as callbacks
\* not called are exactly those that it assigned or initialised with
\* <boundAssertVar>.async() and did not call, directly or through .call or
\* .apply, after the last such assignment; each is reported once.
C2_CallbacksNotCalled ==
    \A f \in Frames :
        LET mine == ReportsOn(f, "asyncCallbackNotCalled")
        IN IF Left(f)
           THEN /\ {mine[k].data.asyncVar : k \in 1..Len(mine)}
                       = NotInvoked(f)
                /\ Len(mine) = Cardinality(NotInvoked(f))
           ELSE mine = <<>>

\* a test that takes done, calls it, takes it again and is left: reported
C2_Witness ==
    \E f \in Frames :
        /\ Left(f)
        /\ \E a, c, b \in Body(f) :
               /\ a < c /\ c < b
               /\ TakesCallback(a, f, "done")
               /\ Invokes(c, "done")
               /\ TakesCallback(b, f, "done")
        /\ Len(ReportsOn(f, "asyncCallbackNotCalled")) = 1

----------------------------------------------------------------------------
(* lib/rules/no-hooks-from-ancestor-modules.js *)

NESTABLE_HOOK_NAMES == {"afterEach", "beforeEach"}

moduleStack == state.moduleStack

isInModuleCallbackBody(nd) ==
    LET chain == ParentChain(nd)
    IN /\ Len(chain) >= 4
       /\ chain[1].type = "ExpressionStatement"
       /\ chain[2].type = "BlockStatement"
       /\ chain[3].type \in {"FunctionExpression", "ArrowFunctionExpression"}
       /\ chain[4].type = "CallExpression"
       /\ isModule(nodes[chain[4].id].ast.callee)

isHookInvocation(nd) ==
    /\ nd.ast.type = "CallExpression"
    /\ nd.ast.callee.type = "MemberExpression"
    /\ nd.ast.callee.object.type = "Identifier"
    /\ nd.ast.callee.property.type = "Identifier"
    /\ nd.ast.callee.property.name \in NESTABLE_HOOK_NAMES
    /\ isInModuleCallbackBody(nd)

\* the callback is args[1] or args[2]
getCallbackArg(args) ==
    Find(SubSeq(args, 2, IF Len(args) < 3 THEN Len(args) ELSE 3),
         IsFunctionLike, NullNode)

getHooksIdentifierFromParams(params) ==
    LET IsHooksParam(p) == p.type = "Identifier" /\ p.name # "this"
    IN Find(params, IsHooksParam, NullNode)

\* The files of the specification: modules with a callback that takes the
\* hooks object, modules without callback or without arguments, a module
\* whose callback is its only argument, a test, and
\* calls of hooks on the parameters of the modules and on another object.
\* Outside every module the rule does nothing but push and pop, so the file
\* itself holds two of the modules and one stray call.
NoHooks_Calls ==
    {CallExpression(Dot("QUnit", "module"),
        <<Literal("string", "A"),
          FunctionExpression(<<Identifier("hooks")>>)>>),
     CallExpression(Dot("QUnit", "module"), <<Literal("string", "C")>>),
     CallExpression(Identifier("module"),
        <<FunctionExpression(<<Identifier("hooks")>>)>>)}
    \cup
    (IF Len(ancestors) = 0
     THEN {CallExpression(Dot("hooks", "beforeEach"), <<>>)}
     ELSE {CallExpression(Identifier("module"),
              <<Literal("string", "B"), [type |-> "ObjectExpression"],
                FunctionExpression(<<Identifier("this"),
                                     Identifier("hooks2")>>)>>),
           CallExpression(Identifier("module"),
              <<Identifier("name"), FunctionExpression(<<>>)>>),
           CallExpression(Identifier("module"), <<>>),
           CallExpression(Identifier("test"),
              <<Literal("string", "a"),
                FunctionExpression(<<Identifier("assert")>>)>>)}
          \cup {CallExpression(callee, <<>>) :
                  callee \in {Dot("hooks", "beforeEach"),
                              Dot("hooks2", "afterEach"),
                              Dot("hooks", "before"),
                              Dot("other", "afterEach")}})

\* a statement of the file or of a callback's body or, for a call of
\* hooks.beforeEach, of the block of an if statement in a callback's body
NoHooks_Between(node) ==
    {StatementIn("ExpressionStatement")}
    \cup (IF node.callee = Dot("hooks", "beforeEach") /\ Len(ancestors) > 0
          THEN {<<"ExpressionStatement", "BlockStatement", "IfStatement">>
                    \o Tail(StatementIn("ExpressionStatement"))}
          ELSE {})

\* statements lie in the file itself and in the callback that is the last
\* argument of a call
InCallbackOrFile ==
    IF Len(ancestors) = 0 THEN TRUE
    ELSE LET arguments == Leaving.ast.arguments
         IN /\ Len(arguments) > 0
            /\ IsFunctionLike(arguments[Len(arguments)])

NoHooks_Init ==
    /\ WalkInit("no-hooks-from-ancestor-modules")
    /\ state = [moduleStack |-> <<>>]

NoHooks_CallExpression ==
    \E node \in NoHooks_Calls : \E between \in NoHooks_Between(node) :
        LET nd == NewNode(node, between)
            id == Len(nodes) + 1
            arg == node.arguments[1]
            description ==
                IF arg.type = "Literal" /\ arg.kind = "string"
                THEN arg.value ELSE getText(arg)
            callback == getCallbackArg(node.arguments)
            hooksParam == getHooksIdentifierFromParams(callback.params)
            moduleStackInfo ==
                [callExpression |-> id,
                 description |-> description,
                 hookIdentifierName |->
                     IF hooksParam.type = "Identifier"
                     THEN hooksParam.name ELSE Null]
            expectedHooksIdentifierName ==
                moduleStack[Len(moduleStack)].hookIdentifierName
            usedHooksIdentifierName == node.callee.object.name
            invokedMethodName == node.callee.property.name
        IN /\ InCallbackOrFile
           /\ Enter(nd, MaxNodesNoHooks, MaxDepthNoHooks)
           /\ IF isModule(node.callee)
              THEN /\ state' = [moduleStack |->
                        IF Len(node.arguments) = 0 THEN moduleStack
                        ELSE IF callback = NullNode THEN moduleStack
                        ELSE Append(moduleStack, moduleStackInfo)]
                   /\ UNCHANGED <<reports, crashed>>
              ELSE IF isHookInvocation(nd)
              THEN IF Len(moduleStack) = 0
                   \* moduleStack[-1] is undefined: reading its property throws
                   THEN crashed' = TRUE /\ UNCHANGED <<state, reports>>
                   ELSE /\ reports' =
                            IF expectedHooksIdentifierName
                                   # usedHooksIdentifierName
                            THEN Append(reports,
                                    [node |-> id, part |-> "callee",
                                     messageId |-> "noHooksFromAncestorModules",
                                     data |-> [invokedMethodName |->
                                                   invokedMethodName,
                                               usedHooksIdentifierName |->
                                                   usedHooksIdentifierName]])
                            ELSE reports
                        /\ UNCHANGED <<state, crashed>>
              ELSE UNCHANGED <<state, reports, crashed>>

NoHooks_CallExpressionExit ==
    /\ Leave
    /\ state' = [moduleStack |->
                    IF isModule(Leaving.ast.callee)
                    THEN Pop(moduleStack) ELSE moduleStack]
    /\ UNCHANGED <<reports, crashed>>

NoHooks_Next ==
    \/ NoHooks_CallExpression
    \/ NoHooks_CallExpressionExit

SpecNoHooks == NoHooks_Init /\ [][NoHooks_Next]_vars

----------------------------------------------------------------------------
(* The context stacks, and no-hooks-from-ancestor-modules, as claimed. *)

IsModuleCall(i) == Live(i) /\ Calls(nodes[i].ast, {"module"})

\* the function passed to a module call as second or third argument
ModuleCallback(i) ==
    LET arguments == nodes[i].ast.arguments
        functions == {k \in 2..3 :
                        /\ k <= Len(arguments)
                        /\ arguments[k].type \in {"FunctionExpression",
                                                  "ArrowFunctionExpression"}}
    IN IF functions = {} THEN NullNode
       ELSE arguments[CHOOSE k \in functions : \A j \in functions : k <= j]

\* the name a module's callback binds the hooks object to, Null when none
HooksParamOf(i) ==
    LET named == SelectSeq(ModuleCallback(i).params,
                           LAMBDA p : p # Identifier("this"))
    IN IF ModuleCallback(i) = NullNode THEN Null
       ELSE IF named = <<>> THEN Null ELSE named[1].name

\* a module the rule keeps a frame for while the walk is in it
OpensModuleFrame(i) == IsModuleCall(i) /\ ModuleCallback(i) # NullNode

\* C5 as claimed, for no-hooks-from-ancestor-modules: every pop removes the
\* frame pushed on entering the node that is left, so that the stack holds
\* at all times the frames of the recognised nodes the walk is in, outermost
\* first, and nothing else; it is empty when the walk is in no node.
C5_StackOfOpenNodes ==
    [k \in 1..Len(moduleStack) |-> moduleStack[k].callExpression]
        = SelectSeq(ancestors, OpensModuleFrame)

RECURSIVE AncestorsOf(_)
AncestorsOf(i) ==
    LET p == nodes[i].parent
    IN IF p = 0 THEN {} ELSE {p} \cup AncestorsOf(p)

\* a call <identifier>.beforeEach or <identifier>.afterEach that is a
\* statement of the body of a module's callback
IsNestableHookCall(h) ==
    /\ Live(h)
    /\ nodes[h].ast.type = "CallExpression"
    /\ nodes[h].ast.callee.type = "MemberExpression"
    /\ nodes[h].ast.callee.property \in
           {Identifier("beforeEach"), Identifier("afterEach")}
    /\ nodes[h].between =
           <<"ExpressionStatement", "BlockStatement", "FunctionExpression">>
    /\ nodes[h].parent # 0
    /\ IsModuleCall(nodes[h].parent)

ReportsOnCallee(h) ==
    SelectSeq(reports, LAMBDA r : r.node = h /\ r.part = "callee")

\* C8 as claimed: a beforeEach or afterEach call on the hooks parameter of
\* the innermost enclosing module is not reported, and one made in a nested
\* module's callback on the hooks parameter of an ancestor module is
\* reported once, on the callee, with the identifier and the method.
C8_HooksOfAncestors ==
    \A h \in 1..Len(nodes) :
        IsNestableHookCall(h) =>
            LET used == nodes[h].ast.callee.object.name
                own == HooksParamOf(nodes[h].parent)
                ofAncestor ==
                    \E q \in AncestorsOf(nodes[h].parent) :
                        IsModuleCall(q) /\ HooksParamOf(q) = used
            IN /\ used = own => ReportsOnCallee(h) = <<>>
               /\ used # own /\ ofAncestor =>
                      ReportsOnCallee(h) =
                          <<[node |-> h, part |-> "callee",
                             messageId |-> "noHooksFromAncestorModules",
                             data |-> [invokedMethodName |->
                                           nodes[h].ast.callee.property.name,
                                       usedHooksIdentifierName |-> used]]>>

----------------------------------------------------------------------------
(* lib/rules/no-conditional-assertions.js *)

CONDITIONAL_NODE_TYPES == {"IfStatement", "ConditionalExpression"}

\* STOP_NODE_TYPES without the arrow function
STOP_NODE_TYPES_NoArrow == {"FunctionExpression", "FunctionDeclaration"}

STOP_NODE_TYPES ==
    {"FunctionExpression", "FunctionDeclaration", "ArrowFunctionExpression"}

testStack == state.testStack

isConditionalNode(type) == type \in CONDITIONAL_NODE_TYPES

isStopNode(type) == type \in STOP_NODE_TYPES

\* The node checkAndReport's loop ends on, as its type: the first of the
\* node and its parents that is a stop node or a conditional node, Null
\* when the loop runs past the Program node.
WalkOutward(nd) ==
    LET chain == ParentChain(nd)
        ends == {k \in 1..Len(chain) :
                    isStopNode(chain[k].type)
                        \/ isConditionalNode(chain[k].type)}
    IN IF isStopNode(nd.ast.type) \/ isConditionalNode(nd.ast.type)
       THEN nd.ast.type
       ELSE IF ends = {} THEN Null
       ELSE chain[CHOOSE k \in ends : \A j \in ends : k <= j].type

NoConditional_isAssertion(calleeNode) ==
    LET assertContextVar == testStack[Len(testStack)].assertContextVar
    IN IF assertContextVar = Null THEN FALSE
       ELSE utils_isAssertion(calleeNode, assertContextVar)

\* how a statement lies in the callback it is in: directly, in the block of
\* an if statement, as a branch of a conditional expression, in an arrow
\* function assigned in the block of an if statement, or in an if statement
\* of a function declared there
NoConditional_InCallback ==
    {<<"ExpressionStatement", "BlockStatement", "FunctionExpression">>,
     <<"ExpressionStatement", "BlockStatement", "IfStatement",
       "BlockStatement", "FunctionExpression">>,
     <<"ConditionalExpression", "ExpressionStatement", "BlockStatement",
       "FunctionExpression">>,
     <<"ExpressionStatement", "BlockStatement", "ArrowFunctionExpression",
       "VariableDeclarator", "VariableDeclaration", "BlockStatement",
       "IfStatement", "BlockStatement", "FunctionExpression">>,
     <<"ExpressionStatement", "BlockStatement", "IfStatement",
       "BlockStatement", "FunctionDeclaration", "BlockStatement",
       "FunctionExpression">>}

\* The files of the specification, as pairs of a call and how it lies in
\* the node the walk is in.  The file itself holds tests, as statements or
\* in the block of an if statement, and a stray assertion; a test holds
\* assertions on its assert object in its callback and among its own
\* arguments, calls in an if statement that are none on it, and a test.
NoConditional_Calls ==
    LET test == CallExpression(Identifier("test"),
                    <<Literal("string", "a"),
                      FunctionExpression(<<Identifier("assert")>>)>>)
        other == CallExpression(Dot("QUnit", "test"),
                    <<Literal("string", "b"),
                      FunctionExpression(<<Identifier("t")>>)>>)
        none == CallExpression(Identifier("only"),
                    <<Literal("string", "c"), FunctionExpression(<<>>)>>)
        inIf == <<"ExpressionStatement", "BlockStatement", "IfStatement">>
        Leaf(callee) == CallExpression(callee, <<>>)
    IN IF Len(ancestors) = 0
       THEN ({test, none} \X {<<"ExpressionStatement">>, inIf})
            \cup {<<Leaf(Dot("assert", "ok")), inIf>>}
       ELSE ({Leaf(Dot("assert", "ok"))}
                 \X (NoConditional_InCallback \cup {<<>>}))
            \cup ({Leaf(Dot("t", "ok")), Leaf(Identifier("ok")),
                   Leaf(Dot("assert", "async"))}
                      \X {<<"ExpressionStatement", "BlockStatement",
                            "IfStatement", "BlockStatement",
                            "FunctionExpression">>})
            \cup {<<other, <<"ExpressionStatement", "BlockStatement",
                             "FunctionExpression">>>>}

NoConditional_Init ==
    /\ WalkInit("no-conditional-assertions")
    /\ state = [testStack |-> <<>>]

NoConditional_CallExpression ==
    \E call \in NoConditional_Calls :
        LET node == call[1]
            nd == NewNode(node, call[2])
        IN /\ InCallbackOrFile
           /\ Enter(nd, MaxNodesNoConditional, MaxDepthNoConditional)
           /\ IF isTest(node.callee)
              THEN /\ state' = [testStack |->
                        Append(testStack,
                            [assertContextVar |->
                                 getAssertContextNameForTest(node.arguments)])]
                   /\ UNCHANGED <<reports, crashed>>
              ELSE IF Len(testStack) > 0
                      /\ NoConditional_isAssertion(node.callee)
              THEN \* checkAndReport
                   /\ crashed' = (WalkOutward(nd) = Null)
                   /\ reports' =
                        IF WalkOutward(nd) \in CONDITIONAL_NODE_TYPES
                        THEN Append(reports,
                                [node |-> Len(nodes) + 1,
                                 messageId |-> "noAssertionInsideConditional"])
                        ELSE reports
                   /\ UNCHANGED state
              ELSE UNCHANGED <<state, reports, crashed>>

NoConditional_CallExpressionExit ==
    /\ Leave
    /\ state' = [testStack |->
                    IF isTest(Leaving.ast.callee)
                    THEN Pop(testStack) ELSE testStack]
    /\ UNCHANGED <<reports, crashed>>

NoConditional_Next ==
    \/ NoConditional_CallExpression
    \/ NoConditional_CallExpressionExit

SpecNoConditional == NoConditional_Init /\ [][NoConditional_Next]_vars

----------------------------------------------------------------------------
(* no-conditional-assertions, as claimed. *)

\* the innermost test call node i lies in, 0 when it lies in none
RECURSIVE TestOf(_)
TestOf(i) ==
    LET p == nodes[i].parent
    IN IF p = 0 THEN 0 ELSE IF IsTestCall(p) THEN p ELSE TestOf(p)

\* node c lies in a test and calls an assertion on the assert variable the
\* test binds
IsAssertionOfTest(c) ==
    /\ Live(c)
    /\ TestOf(c) # 0
    /\ BoundAssertVar(TestOf(c)) # Null
    /\ nodes[c].ast.type = "CallExpression"
    /\ \E i \in 1..Len(ASSERTION_METADATA) :
           nodes[c].ast.callee =
               Dot(BoundAssertVar(TestOf(c)), ASSERTION_METADATA[i].key)

\* walking outward from c, a conditional comes before any function
ConditionalBeforeFunction(c) ==
    LET chain == ParentChain(nodes[c])
        functions == {"FunctionExpression", "FunctionDeclaration",
                      "ArrowFunctionExpression"}
    IN \E k \in 1..Len(chain) :
           /\ chain[k].type \in {"IfStatement", "ConditionalExpression"}
           /\ \A j \in 1..(k - 1) : chain[j].type \notin functions

\* C7: an assertion call on the assert variable of the test it lies in is
\* reported exactly once if, walking outward from it, an if statement or a
\* conditional expression comes before any function expression, function
\* declaration or arrow function, and is not reported otherwise.
C7_ConditionalAssertions ==
    \A c \in 1..Len(nodes) :
        IsAssertionOfTest(c) =>
            SelectSeq(reports, LAMBDA r : r.node = c) =
                IF ConditionalBeforeFunction(c)
                THEN <<[node |-> c,
                        messageId |-> "noAssertionInsideConditional"]>>
                ELSE <<>>

\* a test in the block of an if statement, with an assertion that is a
\* statement of its callback, not reported, and one in an arrow function
\* in a conditional, not reported, and one in an if statement, reported
C7_Witness ==
    \E c, d, e \in 1..Len(nodes) :
        /\ IsAssertionOfTest(c) /\ IsAssertionOfTest(d) /\ IsAssertionOfTest(e)
        /\ TestOf(c) = TestOf(d) /\ TestOf(d) = TestOf(e)
        /\ "IfStatement" \in
               {nodes[TestOf(c)].between[k] :
                    k \in 1..Len(nodes[TestOf(c)].between)}
        /\ Len(nodes[c].between) = 3
        /\ Len(nodes[d].between) = 9
        /\ Len(nodes[e].between) = 5
        /\ reports = <<[node |-> e,
                        messageId |-> "noAssertionInsideConditional"]>>

----------------------------------------------------------------------------
(* lib/rules/no-identical-names.js *)

\* the implicit top-level module, among node ids
TOP_LEVEL_MODULE_NODE == 0

modulesStack == state.modulesStack

mapModuleNodeToInfo == state.mapModuleNodeToInfo

\* what a module starts with in mapModuleNodeToInfo
NoModulesNoTests == [modules |-> <<>>, tests |-> <<>>, hasNestedTests |-> FALSE]

isFirstArgLiteral(node) ==
    /\ node.type = "CallExpression"
    /\ Len(node.arguments) > 0
    /\ node.arguments[1].type = "Literal"

\* the value of a literal, as === compares it
ValueOf(literal) == <<literal.kind, literal.value>>

\* whether the module, once modulesInfo is the map, has tests in it
RECURSIVE moduleHasNestedTests(_, _)
moduleHasNestedTests(modulesInfo, node) ==
    IF node \notin DOMAIN modulesInfo THEN FALSE
    ELSE \/ Len(modulesInfo[node].tests) > 0
         \/ \E k \in 1..Len(modulesInfo[node].modules) :
                moduleHasNestedTests(modulesInfo, modulesInfo[node].modules[k])

\* Array.prototype.findLast: the last element that satisfies Test, else orElse
findLast(seq, Test(_), orElse) ==
    LET hits == {i \in 1..Len(seq) : Test(seq[i])}
    IN IF hits = {} THEN orElse
       ELSE seq[CHOOSE i \in hits : \A j \in hits : i >= j]

\* -1 stands for undefined
getCurrentModuleNode ==
    LET parentModule == mapModuleNodeToInfo[modulesStack[Len(modulesStack)]]
        TestLess(node) == ~mapModuleNodeToInfo[node].hasNestedTests
        lastTestLessModule == findLast(parentModule.modules, TestLess, -1)
    IN IF Len(parentModule.modules) > 0 /\ lastTestLessModule # -1
       THEN lastTestLessModule
       ELSE modulesStack[Len(modulesStack)]

\* loc.start.line of the first argument of the node with this id, as text
LineOf(id) == NumberToString(nodes[id].line)

handleModuleNames_Reports_InnermostAncestor(node, id) ==
    LET title == ValueOf(node.arguments[1])
        currentModuleInfo ==
            mapModuleNodeToInfo[modulesStack[Len(modulesStack)]]
        SameTitle(moduleNode) ==
            moduleNode # TOP_LEVEL_MODULE_NODE
                /\ ValueOf(nodes[moduleNode].ast.arguments[1]) = title
        duplicateModuleTitle == Find(currentModuleInfo.modules, SameTitle, -1)
        duplicateAncestorModuleTitle == findLast(modulesStack, SameTitle, -1)
    IN (IF duplicateModuleTitle # -1
        THEN <<[node |-> id, part |-> "arguments[0]",
                messageId |-> "duplicateModule",
                data |-> [line |-> LineOf(duplicateModuleTitle)]]>>
        ELSE <<>>)
       \o (IF duplicateAncestorModuleTitle # -1
           THEN <<[node |-> id, part |-> "arguments[0]",
                   messageId |-> "duplicateModuleAncestor",
                   data |-> [line |-> LineOf(duplicateAncestorModuleTitle)]]>>
           ELSE <<>>)

\* the diagnostics handleModuleNames reports on the node that gets this id
handleModuleNames_Reports(node, id) ==
    LET title == ValueOf(node.arguments[1])
        currentModuleInfo ==
            mapModuleNodeToInfo[modulesStack[Len(modulesStack)]]
        SameTitle(moduleNode) ==
            moduleNode # TOP_LEVEL_MODULE_NODE
                /\ ValueOf(nodes[moduleNode].ast.arguments[1]) = title
        duplicateModuleTitle == Find(currentModuleInfo.modules, SameTitle, -1)
        duplicateAncestorModuleTitle == Find(modulesStack, SameTitle, -1)
    IN (IF duplicateModuleTitle # -1
        THEN <<[node |-> id, part |-> "arguments[0]",
                messageId |-> "duplicateModule",
                data |-> [line |-> LineOf(duplicateModuleTitle)]]>>
        ELSE <<>>)
       \o (IF duplicateAncestorModuleTitle # -1
           THEN <<[node |-> id, part |-> "arguments[0]",
                   messageId |-> "duplicateModuleAncestor",
                   data |-> [line |-> LineOf(duplicateAncestorModuleTitle)]]>>
           ELSE <<>>)

\* handleModuleNames that does not add the module to its parent's modules
handleModuleNames_State_NotListed(id) ==
    [modulesStack |-> Append(modulesStack, id),
     mapModuleNodeToInfo |->
         [n \in DOMAIN mapModuleNodeToInfo \cup {id} |->
             IF n = id THEN NoModulesNoTests ELSE mapModuleNodeToInfo[n]]]

\* the state handleModuleNames leaves
handleModuleNames_State(id) ==
    LET currentModuleNode == modulesStack[Len(modulesStack)]
    IN [modulesStack |-> Append(modulesStack, id),
        mapModuleNodeToInfo |->
            [n \in DOMAIN mapModuleNodeToInfo \cup {id} |->
                IF n = id THEN NoModulesNoTests
                ELSE IF n = currentModuleNode
                THEN [mapModuleNodeToInfo[n] EXCEPT
                         !.modules = Append(@, id)]
                ELSE mapModuleNodeToInfo[n]]]

handleTestNames_Reports(node, id) ==
    LET title == ValueOf(node.arguments[1])
        currentModuleInfo == mapModuleNodeToInfo[getCurrentModuleNode]
        SameTitle(t) == ValueOf(nodes[t].ast.arguments[1]) = title
        duplicateTestTitle == Find(currentModuleInfo.tests, SameTitle, -1)
    IN IF duplicateTestTitle # -1
       THEN <<[node |-> id, part |-> "arguments[0]",
               messageId |-> "duplicateTest",
               data |-> [line |-> LineOf(duplicateTestTitle)]]>>
       ELSE <<>>

handleTestNames_State(id) ==
    [state EXCEPT
        !.mapModuleNodeToInfo[getCurrentModuleNode].tests = Append(@, id)]

\* The files of the specification: modules A and B with a callback, module
\* A without one, a module with a name that is no literal, and tests.  Each
\* call starts a line of its own, and its first argument lies on that line.
NoIdenticalNames_Calls ==
    LET callback == FunctionExpression(<<>>)
    IN {CallExpression(Dot("QUnit", "module"),
            <<Literal("string", "A"), callback>>),
        CallExpression(Identifier("module"), <<Literal("string", "A")>>),
        CallExpression(Identifier("module"),
            <<Literal("string", "B"), callback>>),
        CallExpression(Identifier("module"), <<Identifier("name"), callback>>),
        CallExpression(Identifier("test"), <<Literal("string", "t")>>),
        CallExpression(Dot("QUnit", "only"), <<Literal("string", "t")>>),
        CallExpression(Identifier("test"), <<Literal("string", "u")>>)}

NoIdenticalNames_Init ==
    /\ WalkInit("no-identical-names")
    /\ state = [modulesStack |-> <<TOP_LEVEL_MODULE_NODE>>,
                mapModuleNodeToInfo |->
                    [n \in {TOP_LEVEL_MODULE_NODE} |-> NoModulesNoTests]]

NoIdenticalNames_CallExpression ==
    \E node \in NoIdenticalNames_Calls :
        LET id == Len(nodes) + 1
            nd == [ast |-> node, parent |-> Top(ancestors),
                   between |-> StatementIn("ExpressionStatement"),
                   line |-> id]
        IN /\ InCallbackOrFile
           /\ EnterAfter(nodes, nd, MaxNodesNoIdenticalNames,
                         MaxDepthNoIdenticalNames)
           /\ IF ~isFirstArgLiteral(node)
              THEN UNCHANGED <<state, reports>>
              ELSE IF isModule(node.callee)
              THEN /\ reports' = reports \o handleModuleNames_Reports(node, id)
                   /\ state' = handleModuleNames_State(id)
              ELSE IF isTest(node.callee)
              THEN /\ reports' = reports \o handleTestNames_Reports(node, id)
                   /\ state' = handleTestNames_State(id)
              ELSE UNCHANGED <<state, reports>>
           /\ UNCHANGED crashed

NoIdenticalNames_CallExpressionExit ==
    /\ Leave
    /\ IF modulesStack[Len(modulesStack)] = Top(ancestors)
       THEN state' =
              [modulesStack |-> Pop(modulesStack),
               mapModuleNodeToInfo |->
                   [mapModuleNodeToInfo EXCEPT
                       ![Top(ancestors)].hasNestedTests =
                           moduleHasNestedTests(mapModuleNodeToInfo,
                                                Top(ancestors))]]
       ELSE UNCHANGED state
    /\ UNCHANGED <<reports, crashed>>

NoIdenticalNames_Next ==
    \/ NoIdenticalNames_CallExpression
    \/ NoIdenticalNames_CallExpressionExit

SpecNoIdenticalNames == NoIdenticalNames_Init /\ [][NoIdenticalNames_Next]_vars

----------------------------------------------------------------------------
(* no-identical-names, as claimed. *)

\* a module registration with a literal name
IsNamedModule(i) ==
    /\ IsModuleCall(i)
    /\ Len(nodes[i].ast.arguments) > 0
    /\ nodes[i].ast.arguments[1].type = "Literal"

\* the nearest module registration with a literal name that i lies in, 0
\* when it lies in none
RECURSIVE ParentModule(_)
ParentModule(i) ==
    LET p == nodes[i].parent
    IN IF p = 0 THEN 0 ELSE IF IsNamedModule(p) THEN p ELSE ParentModule(p)

\* the siblings of module i registered before it under its name
EarlierSiblings(i) ==
    {j \in 1..(i - 1) :
        /\ IsNamedModule(j)
        /\ ParentModule(j) = ParentModule(i)
        /\ nodes[j].ast.arguments[1] = nodes[i].ast.arguments[1]}

ReportsOnName(i) ==
    SelectSeq(reports, LAMBDA r : r.node = i /\ r.part = "arguments[0]")

\* what is reported on the name of a later sibling
DuplicateModule(i) ==
    [node |-> i, part |-> "arguments[0]", messageId |-> "duplicateModule",
     data |-> [line |-> NumberToString(
                  nodes[CHOOSE j \in EarlierSiblings(i) :
                            \A k \in EarlierSiblings(i) : j <= k].line)]]

----------------------------------------------------------------------------
(* The diagnostics of one node, in resolve-async and no-identical-names. *)

Diagnostics_Init == ResolveAsync_Init \/ NoIdenticalNames_Init

Diagnostics_Next ==
    \/ rule = "resolve-async" /\ ResolveAsync_CallbackNext
    \/ rule = "no-identical-names" /\ NoIdenticalNames_Next

SpecDiagnostics == Diagnostics_Init /\ [][Diagnostics_Next]_vars

\* the node a diagnostic is attached to: a node the walk entered, or a
\* part of one
ReportNode(r) ==
    IF "part" \in DOMAIN r THEN <<r.node, r.part>> ELSE <<r.node, "">>

----------------------------------------------------------------------------
(* lib/rules/no-negated-ok.js *)

ASSERTION_OPPOSITES ==
    [name \in {"false", "notOk", "ok", "true"} |->
        CASE name = "false" -> "true"
          [] name = "notOk" -> "ok"
          [] name = "ok" -> "notOk"
          [] name = "true" -> "false"]

POSITIVE_ASSERTIONS == {"ok", "true"}

NEGATIVE_ASSERTIONS == {"notOk", "false"}

ASSERTIONS_TO_CHECK == POSITIVE_ASSERTIONS \cup NEGATIVE_ASSERTIONS

\* the stack of the rule bears the name asyncStateStack as well
NoNegatedOk_asyncStateStack == state.asyncStateStack

getAssertVar ==
    IF Len(NoNegatedOk_asyncStateStack) > 0
    THEN NoNegatedOk_asyncStateStack[
             Len(NoNegatedOk_asyncStateStack)].assertContextVar
    ELSE Null

isOkOrNotOk(calleeNode) ==
    IF calleeNode.type = "MemberExpression"
    THEN /\ calleeNode.object.type = "Identifier"
         /\ calleeNode.object.name = getAssertVar
         /\ calleeNode.property.type = "Identifier"
         /\ calleeNode.property.name \in ASSERTIONS_TO_CHECK
    ELSE FALSE

NoNegatedOk_isAssertion(calleeNode) ==
    IF getAssertVar = Null THEN FALSE
    ELSE utils_isAssertion(calleeNode, getAssertVar)

\* getNegationDepth that counts every not operator of the chain but the last
getNegationDepth_OffByOne(argNode) ==
    IF argNode.type = "UnaryExpression" /\ argNode.operator = "!"
    THEN 1 ELSE 0

RECURSIVE getNegationDepth(_)
getNegationDepth(argNode) ==
    IF argNode.type = "UnaryExpression" /\ argNode.operator = "!"
    THEN 1 + getNegationDepth(argNode.argument)
    ELSE 0

RECURSIVE unwrapNegation(_)
unwrapNegation(argNode) ==
    IF argNode.type = "UnaryExpression" /\ argNode.operator = "!"
    THEN unwrapNegation(argNode.argument)
    ELSE argNode

\* the text the fix replaces the call with; no text when it returns null
NoNegatedOk_fix(callExprNode) ==
    LET callee == callExprNode.callee
        firstArgNode == callExprNode.arguments[1]
    IN IF \/ callee.type # "MemberExpression"
          \/ callee.object.type # "Identifier"
          \/ callee.property.type # "Identifier"
       THEN <<>>
       ELSE IF callee.property.name \notin {"true", "false", "ok", "notOk"}
       THEN <<>>
       ELSE LET assertionVariableName == callee.object.name
                oppositeAssertionFunctionName ==
                    ASSERTION_OPPOSITES[callee.property.name]
                newArgs == <<unwrapNegation(firstArgNode)>>
                               \o Tail(callExprNode.arguments)
                newArgsTextArray ==
                    [i \in 1..Len(newArgs) |-> getText(newArgs[i])]
                newArgsTextJoined == Join(newArgsTextArray, <<",">>)
            IN <<assertionVariableName, ".", oppositeAssertionFunctionName,
                 "(">> \o newArgsTextJoined \o <<")">>

\* the diagnostics checkForNegation reports on the node that gets this id
checkForNegation(callExprNode, id) ==
    IF /\ callExprNode.type = "CallExpression"
       /\ Len(callExprNode.arguments) > 0
       /\ getNegationDepth(callExprNode.arguments[1]) % 2 = 1
    THEN <<[node |-> id, messageId |-> "noNegationInOk",
            data |-> [callee |-> getText(callExprNode.callee)],
            fix |-> NoNegatedOk_fix(callExprNode)]>>
    ELSE <<>>

\* The first arguments of the specification: a, and what not operators and
\* sequence expressions with b make of it, nested no deeper than depth.
RECURSIVE NoNegatedOk_Arguments(_)
NoNegatedOk_Arguments(depth) ==
    IF depth = 0 THEN {Identifier("a")}
    ELSE LET shallower == NoNegatedOk_Arguments(depth - 1)
         IN shallower
            \cup {UnaryExpression("!", e) : e \in shallower}
            \cup {SequenceExpression(<<e, Identifier("b")>>) :
                    e \in shallower}

\* The files of the specification: tests with and without an assert
\* parameter and a stray assertion in the file itself; in a test, calls of
\* the four assertions, of another assertion and of ok on another object,
\* with and without a message, and a call without arguments.
NoNegatedOk_Calls ==
    IF Len(ancestors) = 0
    THEN {TestCall(Dot("QUnit", "test"), <<Identifier("assert")>>),
          TestCall(Identifier("test"), <<>>),
          CallExpression(Dot("assert", "ok"),
                         <<UnaryExpression("!", Identifier("a"))>>)}
    ELSE {CallExpression(callee, <<first>> \o rest) :
            callee \in {Dot("assert", "ok"), Dot("assert", "notOk"),
                        Dot("assert", "true"), Dot("assert", "false"),
                        Dot("assert", "equal"), Dot("t", "ok")},
            first \in NoNegatedOk_Arguments(MaxDepthArgument),
            rest \in {<<>>, <<Literal("string", "msg")>>}}
         \cup {CallExpression(Dot("assert", "ok"), <<>>)}

NoNegatedOk_Init ==
    /\ WalkInit("no-negated-ok")
    /\ state = [asyncStateStack |-> <<>>]

NoNegatedOk_CallExpression ==
    \E node \in NoNegatedOk_Calls :
        /\ InCallbackOrFile
        /\ Enter(NewNode(node, StatementIn("ExpressionStatement")),
                 MaxNodesNoNegatedOk, MaxDepthNoNegatedOk)
        /\ IF isTest(node.callee)
           THEN /\ state' = [asyncStateStack |->
                     Append(NoNegatedOk_asyncStateStack,
                         [assertContextVar |->
                              getAssertContextNameForTest(node.arguments)])]
                /\ UNCHANGED reports
           ELSE /\ reports' =
                     IF NoNegatedOk_isAssertion(node.callee)
                            /\ isOkOrNotOk(node.callee)
                     THEN reports \o checkForNegation(node, Len(nodes) + 1)
                     ELSE reports
                /\ UNCHANGED state
        /\ UNCHANGED crashed

NoNegatedOk_CallExpressionExit ==
    /\ Leave
    /\ state' = [asyncStateStack |->
                    IF isTest(Leaving.ast.callee)
                    THEN Pop(NoNegatedOk_asyncStateStack)
                    ELSE NoNegatedOk_asyncStateStack]
    /\ UNCHANGED <<reports, crashed>>

NoNegatedOk_Next ==
    \/ NoNegatedOk_CallExpression
    \/ NoNegatedOk_CallExpressionExit

SpecNoNegatedOk == NoNegatedOk_Init /\ [][NoNegatedOk_Next]_vars

----------------------------------------------------------------------------
(* no-negated-ok, as claimed.  The call the fix leaves in the file is read  *)
(* back from the text the fix writes.                                       *)

\* the commas of the tokens that lie in no parentheses
TopLevelCommas(tokens) ==
    {i \in 1..Len(tokens) :
        /\ tokens[i] = ","
        /\ Cardinality({k \in 1..(i - 1) : tokens[k] = "("})
               = Cardinality({k \in 1..(i - 1) : tokens[k] = ")"})}

RECURSIVE SplitAtCommas(_)
SplitAtCommas(tokens) ==
    IF tokens = <<>> THEN <<>>
    ELSE IF TopLevelCommas(tokens) = {} THEN <<tokens>>
    ELSE LET c == CHOOSE i \in TopLevelCommas(tokens) :
                      \A j \in TopLevelCommas(tokens) : i <= j
         IN <<SubSeq(tokens, 1, c - 1)>>
                \o SplitAtCommas(SubSeq(tokens, c + 1, Len(tokens)))

\* the expression the tokens are the text of
RECURSIVE ParseExpression(_)
ParseExpression(tokens) ==
    IF tokens[1] = "!"
    THEN UnaryExpression("!", ParseExpression(Tail(tokens)))
    ELSE IF tokens[1] = "("
    THEN LET parts == SplitAtCommas(SubSeq(tokens, 2, Len(tokens) - 1))
         IN IF Len(parts) = 1 THEN ParseExpression(parts[1])
            ELSE SequenceExpression(
                     [k \in 1..Len(parts) |-> ParseExpression(parts[k])])
    ELSE IF tokens = <<"'msg'">> THEN Literal("string", "msg")
    ELSE IF tokens \in {<<"true">>, <<"false">>}
    THEN Literal("boolean", tokens[1])
    ELSE Identifier(tokens[1])

\* the call <object>.<property>(<arguments>) the tokens are the text of
ParseCall(tokens) ==
    LET parts == SplitAtCommas(SubSeq(tokens, 5, Len(tokens) - 1))
    IN CallExpression(Dot(tokens[1], tokens[3]),
                      [k \in 1..Len(parts) |-> ParseExpression(parts[k])])

\* the number of not operators an expression begins with
RECURSIVE LeadingNots(_)
LeadingNots(e) ==
    IF e.type = "UnaryExpression" /\ e.operator = "!"
    THEN 1 + LeadingNots(e.argument) ELSE 0

\* the expression below the not operators it begins with
RECURSIVE NotOperand(_)
NotOperand(e) ==
    IF e.type = "UnaryExpression" /\ e.operator = "!"
    THEN NotOperand(e.argument) ELSE e

\* a call of ok, notOk, true or false on the assert variable of the test
\* it lies in, with a first argument
IsOkCall(c) ==
    /\ IsAssertionOfTest(c)
    /\ nodes[c].ast.callee.property.name \in {"ok", "notOk", "true", "false"}
    /\ Len(nodes[c].ast.arguments) > 0

Opposite(name) ==
    CASE name = "ok" -> "notOk" [] name = "notOk" -> "ok"
      [] name = "true" -> "false" [] name = "false" -> "true"

\* C10 as claimed: a call of ok, notOk, true or false is reported if and
\* only if its first argument begins with an odd number of not operators;
\* the fix then leaves a call of the opposite assertion whose first argument
\* is the operand below all of them and whose other arguments are kept in
\* order, and that call is not reported again.
C10_NegatedOk ==
    \A c \in 1..Len(nodes) :
        IsOkCall(c) =>
            LET call == nodes[c].ast
                mine == SelectSeq(reports, LAMBDA r : r.node = c)
            IN IF LeadingNots(call.arguments[1]) % 2 = 1
               THEN /\ Len(mine) = 1
                    /\ mine[1].messageId = "noNegationInOk"
                    /\ mine[1].fix # <<>>
                    /\ LET fixed == ParseCall(mine[1].fix)
                       IN /\ fixed.callee =
                                 Dot(call.callee.object.name,
                                     Opposite(call.callee.property.name))
                          /\ fixed.arguments =
                                 <<NotOperand(call.arguments[1])>>
                                     \o Tail(call.arguments)
                          /\ LeadingNots(fixed.arguments[1]) % 2 = 0
               ELSE mine = <<>>

----------------------------------------------------------------------------
(* no-assert-equal-boolean (lib/rules/no-assert-equal-boolean.js).          *)

EQUALITY_ASSERTIONS == {"equal", "deepEqual", "strictEqual"}

NoAssertEqualBoolean_testStack == state.testStack

\* null when the stack is empty stands for the assertion that throws; the
\* visitor reads it only with a test on the stack
getCurrentAssertContextVariable ==
    IF Len(NoAssertEqualBoolean_testStack) = 0 THEN Null
    ELSE NoAssertEqualBoolean_testStack[Len(NoAssertEqualBoolean_testStack)]
             .assertVar

isGlobalEqualityAssertion(calleeNode) ==
    /\ calleeNode.type = "Identifier"
    /\ calleeNode.name \in EQUALITY_ASSERTIONS

isAssertEquality(calleeNode) ==
    /\ calleeNode.type = "MemberExpression"
    /\ calleeNode.property.type = "Identifier"
    /\ calleeNode.property.name \in EQUALITY_ASSERTIONS
    /\ calleeNode.object.type = "Identifier"
    /\ calleeNode.object.name = getCurrentAssertContextVariable

isEqualityAssertion(calleeNode) ==
    isGlobalEqualityAssertion(calleeNode) \/ isAssertEquality(calleeNode)

\* The argument found is a node of the tree, told from an equal one by where
\* it stands: the position in node.arguments, 0 for undefined.
getBooleanArgument(node) ==
    IF node.type # "CallExpression" \/ Len(node.arguments) < 2
    THEN 0
    ELSE LET found == {i \in 1..2 :
                          /\ node.arguments[i].type = "Literal"
                          /\ node.arguments[i].kind = "boolean"}
         IN IF found = {} THEN 0 ELSE IF 1 \in found THEN 1 ELSE 2

\* the text the fix replaces the call with; no text when it returns null
NoAssertEqualBoolean_fix(node) ==
    LET booleanArgument == getBooleanArgument(node)
    IN IF booleanArgument = 0 THEN <<>>
       ELSE LET newAssertionFunctionName ==
                    IF node.arguments[booleanArgument].value = "true"
                    THEN "true" ELSE "false"
                kept == SelectSeq([i \in 1..Len(node.arguments) |-> i],
                                  LAMBDA i : i # booleanArgument)
                newArgsTextArray ==
                    [k \in 1..Len(kept) |-> getText(node.arguments[kept[k]])]
                newArgsTextJoined == Join(newArgsTextArray, <<",">>)
                assertVariablePrefix ==
                    IF node.callee.type = "Identifier" THEN <<>>
                    ELSE <<getCurrentAssertContextVariable, ".">>
            IN assertVariablePrefix \o <<newAssertionFunctionName, "(">>
                   \o newArgsTextJoined \o <<")">>

\* the diagnostic reportError reports on the node that gets this id
NoAssertEqualBoolean_reportError(node, id) ==
    <<[node |-> id, messageId |-> "useAssertTrueOrFalse",
       fix |-> NoAssertEqualBoolean_fix(node)]>>

\* The files of the specification: tests with and without an assert
\* parameter and a stray equality assertion in the file itself; in a test,
\* assert.equal with every choice of a, true, false and (a, b) for its first
\* two arguments, with and without a message and with one argument only;
\* the other equality assertions, the bare equal, another assertion and
\* equal on another object with the literal first and second; and a test.
NoAssertEqualBoolean_Calls ==
    LET operands == {Identifier("a"), Literal("boolean", "true"),
                     Literal("boolean", "false"),
                     SequenceExpression(<<Identifier("a"),
                                          Identifier("b")>>)}
    IN IF Len(ancestors) = 0
       THEN {TestCall(Dot("QUnit", "test"), <<Identifier("assert")>>),
             TestCall(Identifier("test"), <<>>),
             CallExpression(Dot("assert", "equal"),
                 <<Identifier("a"), Literal("boolean", "true")>>)}
       ELSE {CallExpression(Dot("assert", "equal"),
                            <<first, second>> \o rest) :
               first \in operands, second \in operands,
               rest \in {<<>>, <<Literal("string", "msg")>>}}
            \cup {CallExpression(callee, arguments) :
                    callee \in {Dot("assert", "deepEqual"),
                                Dot("assert", "strictEqual"),
                                Identifier("equal"), Dot("assert", "ok"),
                                Dot("t", "equal")},
                    arguments \in
                        {<<Identifier("a"), Literal("boolean", "false")>>,
                         <<Literal("boolean", "true"), Identifier("a")>>}}
            \cup {CallExpression(Dot("assert", "equal"),
                                 <<Literal("boolean", "true")>>),
                  TestCall(Identifier("test"), <<Identifier("t")>>)}

NoAssertEqualBoolean_Init ==
    /\ WalkInit("no-assert-equal-boolean")
    /\ state = [testStack |-> <<>>]

\* What the scope index of the file may say the callee of the call refers
\* to: a bare equal is the global function or a function the file declares.
\* The rule does not consult the index.
NoAssertEqualBoolean_Resolves(node) ==
    IF node.callee = Identifier("equal") THEN {"global", "local"}
    ELSE {"global"}

\* the handler without its test of the stack's length
NoAssertEqualBoolean_CallExpression_Unguarded ==
    \E node \in NoAssertEqualBoolean_Calls :
      \E resolves \in NoAssertEqualBoolean_Resolves(node) :
        LET \* isAssertEquality gets as far as the call of
            \* getCurrentAssertContextVariable, whose assertion fails
            \* on an empty stack
            throws ==
                /\ ~isGlobalEqualityAssertion(node.callee)
                /\ node.callee.type = "MemberExpression"
                /\ node.callee.property.type = "Identifier"
                /\ node.callee.property.name \in EQUALITY_ASSERTIONS
                /\ node.callee.object.type = "Identifier"
                /\ Len(NoAssertEqualBoolean_testStack) = 0
        IN
        /\ InCallbackOrFile
        /\ Enter([ast |-> node, parent |-> Top(ancestors),
                  between |-> StatementIn("ExpressionStatement"),
                  resolves |-> resolves],
                 MaxNodesNoAssertEqualBoolean, MaxDepthNoAssertEqualBoolean)
        /\ IF isTest(node.callee) \/ isAsyncTest(node.callee)
           THEN /\ state' = [testStack |->
                     Append(NoAssertEqualBoolean_testStack,
                         [assertVar |->
                              getAssertContextNameForTest(node.arguments)])]
                /\ UNCHANGED <<reports, crashed>>
           ELSE IF TRUE
           THEN IF throws
                THEN crashed' = TRUE /\ UNCHANGED <<state, reports>>
                ELSE /\ reports' =
                          IF isEqualityAssertion(node.callee)
                                 /\ getBooleanArgument(node) # 0
                          THEN reports \o NoAssertEqualBoolean_reportError(
                                              node, Len(nodes) + 1)
                          ELSE reports
                     /\ UNCHANGED <<state, crashed>>
           ELSE UNCHANGED <<state, reports, crashed>>

NoAssertEqualBoolean_CallExpression ==
    \E node \in NoAssertEqualBoolean_Calls :
      \E resolves \in NoAssertEqualBoolean_Resolves(node) :
        LET \* isAssertEquality gets as far as the call of
            \* getCurrentAssertContextVariable, whose assertion fails
            \* on an empty stack
            throws ==
                /\ ~isGlobalEqualityAssertion(node.callee)
                /\ node.callee.type = "MemberExpression"
                /\ node.callee.property.type = "Identifier"
                /\ node.callee.property.name \in EQUALITY_ASSERTIONS
                /\ node.callee.object.type = "Identifier"
                /\ Len(NoAssertEqualBoolean_testStack) = 0
        IN
        /\ InCallbackOrFile
        /\ Enter([ast |-> node, parent |-> Top(ancestors),
                  between |-> StatementIn("ExpressionStatement"),
                  resolves |-> resolves],
                 MaxNodesNoAssertEqualBoolean, MaxDepthNoAssertEqualBoolean)
        /\ IF isTest(node.callee) \/ isAsyncTest(node.callee)
           THEN /\ state' = [testStack |->
                     Append(NoAssertEqualBoolean_testStack,
                         [assertVar |->
                              getAssertContextNameForTest(node.arguments)])]
                /\ UNCHANGED <<reports, crashed>>
           ELSE IF Len(NoAssertEqualBoolean_testStack) > 0
           THEN IF throws
                THEN crashed' = TRUE /\ UNCHANGED <<state, reports>>
                ELSE /\ reports' =
                          IF isEqualityAssertion(node.callee)
                                 /\ getBooleanArgument(node) # 0
                          THEN reports \o NoAssertEqualBoolean_reportError(
                                              node, Len(nodes) + 1)
                          ELSE reports
                     /\ UNCHANGED <<state, crashed>>
           ELSE UNCHANGED <<state, reports, crashed>>

NoAssertEqualBoolean_CallExpressionExit ==
    /\ Leave
    /\ state' = [testStack |->
                    IF isTest(Leaving.ast.callee)
                           \/ isAsyncTest(Leaving.ast.callee)
                    THEN Pop(NoAssertEqualBoolean_testStack)
                    ELSE NoAssertEqualBoolean_testStack]
    /\ UNCHANGED <<reports, crashed>>

NoAssertEqualBoolean_Next ==
    \/ NoAssertEqualBoolean_CallExpression
    \/ NoAssertEqualBoolean_CallExpressionExit

SpecNoAssertEqualBoolean ==
    NoAssertEqualBoolean_Init /\ [][NoAssertEqualBoolean_Next]_vars

----------------------------------------------------------------------------
(* no-assert-equal-boolean, as claimed.                                     *)

IsBooleanLiteral(e) == e.type = "Literal" /\ e.kind = "boolean"

\* a call of equal, deepEqual or strictEqual on the assert variable of the
\* test it lies in, with two arguments or more
IsEqualityCall(c) ==
    /\ IsAssertionOfTest(c)
    /\ nodes[c].ast.callee.property.name \in EQUALITY_ASSERTIONS
    /\ Len(nodes[c].ast.arguments) >= 2

\* which of the first two arguments of the call are boolean literals
BooleansOf(call) == {i \in 1..2 : IsBooleanLiteral(call.arguments[i])}

\* C11 as claimed: an equality assertion of a test with exactly one boolean
\* literal among its first two arguments is fixed to a call of the
\* assertion named after that literal on the same assert variable, whose
\* arguments are the original ones, in order, without that literal.
C11_BooleanFix ==
    \A c \in 1..Len(nodes) :
        (IsEqualityCall(c) /\ Cardinality(BooleansOf(nodes[c].ast)) = 1) =>
            LET call == nodes[c].ast
                b == CHOOSE i \in BooleansOf(call) : TRUE
                others == SelectSeq([i \in 1..Len(call.arguments) |-> i],
                                    LAMBDA i : i # b)
                mine == SelectSeq(reports, LAMBDA r : r.node = c)
            IN /\ Len(mine) = 1
               /\ mine[1].fix # <<>>
               /\ LET fixed == ParseCall(mine[1].fix)
                  IN /\ fixed.callee = Dot(call.callee.object.name,
                                           call.arguments[b].value)
                     /\ fixed.arguments =
                            [k \in 1..Len(others) |->
                                 call.arguments[others[k]]]

\* C12 as claimed: an equality assertion of a test of whose first two
\* arguments neither or both are boolean literals is offered no fix.
C12_NoFixUnlessOneBoolean ==
    \A c \in 1..Len(nodes) :
        (IsEqualityCall(c) /\ Cardinality(BooleansOf(nodes[c].ast)) # 1) =>
            \A k \in 1..Len(reports) :
                reports[k].node = c => reports[k].fix = <<>>

\* C16 as claimed, for no-assert-equal-boolean: a call the rule treats as
\* an assertion (it reports it) is a call of a bare identifier that
\* resolves to the unshadowed global function, or a call of a member of
\* the assert variable bound by the test it lies in; a call of a locally
\* declared function that shares an assertion's name is never reported.
C16_GlobalOrBoundOnly ==
    \A c \in 1..Len(nodes) :
        (Live(c) /\ ReportsOn(c, "useAssertTrueOrFalse") # <<>>) =>
            LET callee == nodes[c].ast.callee
            IN IF callee.type = "Identifier"
               THEN nodes[c].resolves = "global"
               ELSE /\ TestOf(c) # 0
                    /\ callee.object = Identifier(BoundAssertVar(TestOf(c)))

----------------------------------------------------------------------------
(* no-assert-equal (lib/rules/no-assert-equal.js).                          *)
(* The scope index of the file is an input of the rule: every node of the   *)
(* walk carries, as resolves, what the identifier its callee begins with    *)
(* refers to, "global" for the unshadowed global variable of that name and  *)
(* "local" for a variable or function the file declares.                    *)

NoAssertEqual_testStack == state.testStack

\* null when the stack is empty stands for the assertion that throws
NoAssertEqual_getCurrentAssertContextVariable ==
    IF Len(NoAssertEqual_testStack) = 0 THEN Null
    ELSE NoAssertEqual_testStack[Len(NoAssertEqual_testStack)].assertVar

isAssertEqual(calleeNode) ==
    /\ calleeNode.type = "MemberExpression"
    /\ calleeNode.property.type = "Identifier"
    /\ calleeNode.property.name = "equal"
    /\ calleeNode.object.type = "Identifier"
    /\ calleeNode.object.name = NoAssertEqual_getCurrentAssertContextVariable

\* globalEqualCallNodes.has(node): Program gathers the calls the reference
\* tracker yields for the trace map { equal: { [CALL]: true } }, the calls
\* whose callee is a reference to the global variable equal
globalEqualCallNodes_has_AnyEqual(nd) ==
    /\ nd.ast.type = "CallExpression"
    /\ nd.ast.callee.type = "Identifier"
    /\ nd.ast.callee.name = "equal"

globalEqualCallNodes_has(nd) ==
    /\ nd.ast.type = "CallExpression"
    /\ nd.ast.callee.type = "Identifier"
    /\ nd.ast.callee.name = "equal"
    /\ nd.resolves = "global"

NoAssertEqual_suggestionFix_WholeCallee(node, isGlobal, text) ==
    [nodeToReplace |-> "callee", text |-> text]

\* what a suggestion's fix returns: the node whose text it replaces, as the
\* path from the call to it, and the text; null is no node and no text
NoAssertEqual_suggestionFix(node, isGlobal, text) ==
    IF node.type # "CallExpression"
    THEN [nodeToReplace |-> Null, text |-> Null]
    ELSE LET nodeToReplace ==
                 IF isGlobal THEN "callee"
                 ELSE IF node.callee.type = "MemberExpression"
                 THEN "callee.property"
                 ELSE Null
         IN IF nodeToReplace = Null
            THEN [nodeToReplace |-> Null, text |-> Null]
            ELSE [nodeToReplace |-> nodeToReplace, text |-> text]

\* the diagnostic reportError reports on the node that gets this id
NoAssertEqual_reportError(node, isGlobal, id) ==
    LET assertVar == IF isGlobal THEN Null
                     ELSE NoAssertEqual_getCurrentAssertContextVariable
    IN <<[node |-> id,
          messageId |-> IF isGlobal THEN "unexpectedGlobalEqual"
                        ELSE "unexpectedAssertEqual",
          data |-> IF assertVar # Null THEN [assertVar |-> assertVar]
                   ELSE <<>>,
          suggest |->
              <<[messageId |-> "switchToDeepEqual",
                 fix |-> NoAssertEqual_suggestionFix(node, isGlobal,
                                                     "deepEqual")],
                [messageId |-> "switchToPropEqual",
                 fix |-> NoAssertEqual_suggestionFix(node, isGlobal,
                                                     "propEqual")],
                [messageId |-> "switchToStrictEqual",
                 fix |-> NoAssertEqual_suggestionFix(node, isGlobal,
                                                     "strictEqual")]>>]>>

\* a module call whose options object holds one hook
ModuleWithHook(callee, hook, params) ==
    CallExpression(callee,
        <<Literal("string", "m"),
          [type |-> "ObjectExpression",
           properties |->
               <<Property(Identifier(hook), FunctionExpression(params))>>]>>)

\* the nodes between a statement of a hook's body and the module call
InHook ==
    <<"ExpressionStatement", "BlockStatement", "FunctionExpression",
      "Property", "ObjectExpression">>

\* The statements the walk may enter next, each with the nodes between it
\* and the innermost open call: in the file itself tests with and without
\* an assert parameter, a module with a hook, and stray equal calls; in the
\* callback of a test the equal calls on the assert variable and on another
\* object, the bare equal as the global and as a local function, the
\* assertions the suggestions name, bare and on the assert variable, a test
\* and a module with a hook; in a hook the equal calls.
NoAssertEqual_Calls ==
    LET ab == <<Identifier("a"), Identifier("b")>>
        global(calls) == {<<c, "global">> : c \in calls}
        strict == {"deepEqual", "propEqual", "strictEqual"}
    IN IF Len(ancestors) = 0
       THEN {<<c, StatementIn("ExpressionStatement")>> : c \in
               global({TestCall(Dot("QUnit", "test"),
                                <<Identifier("assert")>>),
                       TestCall(Identifier("test"), <<>>),
                       ModuleWithHook(Dot("QUnit", "module"), "before",
                                      <<Identifier("assert")>>),
                       CallExpression(Identifier("equal"), ab),
                       CallExpression(Dot("assert", "equal"), ab)})}
       ELSE LET arguments == Leaving.ast.arguments
                last == arguments[Len(arguments)]
            IN IF IsFunctionLike(last)
               THEN {<<c, StatementIn("ExpressionStatement")>> : c \in
                       global({CallExpression(Dot("assert", "equal"), ab),
                               CallExpression(Dot("assert", "equal"),
                                   ab \o <<Literal("string", "msg")>>),
                               CallExpression(Dot("foo", "equal"), ab),
                               CallExpression(Identifier("equal"), ab),
                               CallExpression(Dot("assert", "ok"),
                                              <<Identifier("a")>>),
                               TestCall(Identifier("test"),
                                        <<Identifier("foo")>>),
                               ModuleWithHook(Identifier("module"),
                                   "beforeEach", <<Identifier("assert")>>)})
                       \cup global({CallExpression(Dot("assert", n), ab) :
                                       n \in strict})
                       \cup global({CallExpression(Identifier(n), ab) :
                                       n \in strict})
                       \cup {<<CallExpression(Identifier("equal"), ab),
                               "local">>}}
               ELSE IF last.type = "ObjectExpression"
               THEN {<<c, InHook>> : c \in
                       global({CallExpression(Dot("assert", "equal"), ab),
                               CallExpression(Identifier("equal"), ab)})}
               ELSE {}

NoAssertEqual_Init ==
    /\ WalkInit("no-assert-equal")
    /\ state = [testStack |-> <<>>]

NoAssertEqual_CallExpression ==
    \E call \in NoAssertEqual_Calls :
        LET node == call[1][1]
            id == Len(nodes) + 1
            nd == [ast |-> node, parent |-> Top(ancestors),
                   between |-> call[2], resolves |-> call[1][2]]
            \* isAssertEqual gets as far as the call of
            \* getCurrentAssertContextVariable, whose assertion fails
            \* on an empty stack
            throws ==
                /\ node.callee.type = "MemberExpression"
                /\ node.callee.property.type = "Identifier"
                /\ node.callee.property.name = "equal"
                /\ node.callee.object.type = "Identifier"
                /\ Len(NoAssertEqual_testStack) = 0
        IN /\ Enter(nd, MaxNodesNoAssertEqual, MaxDepthNoAssertEqual)
           /\ IF isTest(node.callee) \/ isAsyncTest(node.callee)
              THEN /\ state' = [testStack |->
                        Append(NoAssertEqual_testStack,
                            [assertVar |->
                                 getAssertContextNameForTest(
                                     node.arguments)])]
                   /\ UNCHANGED <<reports, crashed>>
              ELSE IF Len(NoAssertEqual_testStack) > 0
              THEN IF throws
                   THEN crashed' = TRUE /\ UNCHANGED <<state, reports>>
                   ELSE /\ reports' =
                             IF isAssertEqual(node.callee)
                             THEN reports \o NoAssertEqual_reportError(
                                                 node, FALSE, id)
                             ELSE IF globalEqualCallNodes_has(nd)
                             THEN reports \o NoAssertEqual_reportError(
                                                 node, TRUE, id)
                             ELSE reports
                        /\ UNCHANGED <<state, crashed>>
              ELSE UNCHANGED <<state, reports, crashed>>

NoAssertEqual_CallExpressionExit ==
    /\ Leave
    /\ state' = [testStack |->
                    IF isTest(Leaving.ast.callee)
                           \/ isAsyncTest(Leaving.ast.callee)
                    THEN Pop(NoAssertEqual_testStack)
                    ELSE NoAssertEqual_testStack]
    /\ UNCHANGED <<reports, crashed>>

NoAssertEqual_Next ==
    \/ NoAssertEqual_CallExpression
    \/ NoAssertEqual_CallExpressionExit

SpecNoAssertEqual == NoAssertEqual_Init /\ [][NoAssertEqual_Next]_vars

----------------------------------------------------------------------------
(* no-assert-equal, as claimed.  The call a suggestion leaves in the file   *)
(* is read back from the text of the call with the suggestion applied.      *)

\* the text of the call after fixer.replaceText has replaced the text of
\* the node the fix names
ReplaceText(call, fix) ==
    LET text == getText(call)
        calleeEnd == Len(getText(call.callee))
        rest == SubSeq(text, calleeEnd + 1, Len(text))
    IN IF fix.nodeToReplace = "callee"
       THEN <<fix.text>> \o rest
       ELSE SubSeq(text, 1, calleeEnd - 1) \o <<fix.text>> \o rest

\* the call the tokens are the text of, its callee an identifier or a
\* property of one
ParseAnyCall(tokens) ==
    IF tokens[2] = "." THEN ParseCall(tokens)
    ELSE LET parts == SplitAtCommas(SubSeq(tokens, 3, Len(tokens) - 1))
         IN CallExpression(Identifier(tokens[1]),
                [k \in 1..Len(parts) |-> ParseExpression(parts[k])])

\* the call with its callee's name, the identifier or the property, changed
Renamed(call, name) ==
    IF call.callee.type = "Identifier"
    THEN CallExpression(Identifier(name), call.arguments)
    ELSE CallExpression(
             MemberExpression(call.callee.object, Identifier(name)),
             call.arguments)

CalleeName(call) ==
    IF call.callee.type = "Identifier" THEN call.callee.name
    ELSE call.callee.property.name

ReportsOnNode(c) == SelectSeq(reports, LAMBDA r : r.node = c)

SuggestedNames == <<"deepEqual", "propEqual", "strictEqual">>

SuggestionIds ==
    <<"switchToDeepEqual", "switchToPropEqual", "switchToStrictEqual">>

LiesInHook(c) ==
    /\ Live(c)
    /\ nodes[c].between = InHook
    /\ nodes[c].parent # 0
    /\ Calls(nodes[nodes[c].parent].ast, {"module"})

\* the hook whose body the statement lies in
HookAround(c) == nodes[nodes[c].parent].ast.arguments[2].properties[1]

\* C14 as claimed: a call of equal on the first parameter of the module
\* hook it lies in is reported once, as unexpectedAssertEqual with that
\* parameter as assertVar, and with the three suggestions.
C14_EqualInModuleHook ==
    \A c \in 1..Len(nodes) :
        (/\ LiesInHook(c)
         /\ HookAround(c).value.params # <<>>
         /\ nodes[c].ast.callee.type = "MemberExpression"
         /\ nodes[c].ast.callee
                = MemberExpression(HookAround(c).value.params[1],
                                   Identifier("equal")))
        => LET mine == ReportsOnNode(c)
           IN /\ Len(mine) = 1
              /\ mine[1].messageId = "unexpectedAssertEqual"
              /\ mine[1].data = [assertVar |->
                                    HookAround(c).value.params[1].name]
              /\ [k \in 1..Len(mine[1].suggest) |->
                      mine[1].suggest[k].messageId] = SuggestionIds

IsBareEqual(c) ==
    /\ Live(c)
    /\ nodes[c].ast.type = "CallExpression"
    /\ nodes[c].ast.callee = Identifier("equal")

----------------------------------------------------------------------------
(* literal-compare-order (lib/rules/literal-compare-order.js).              *)

LiteralCompareOrder_testStack == state.testStack

\* null when the stack is empty stands for the assertion that throws
getAssertContext ==
    IF Len(LiteralCompareOrder_testStack) = 0 THEN Null
    ELSE LiteralCompareOrder_testStack[Len(LiteralCompareOrder_testStack)]
             .assertContextVar

\* the two replacements of the fix: each names the element of list whose
\* text it replaces, by its position, and the text put there
swapFirstTwoNodesInList(list) ==
    LET node0Text == getText(list[1])
        node1Text == getText(list[2])
    IN <<[nodeToReplace |-> 1, text |-> node1Text],
         [nodeToReplace |-> 2, text |-> node0Text]>>

\* the diagnostics checkLiteralCompareOrder reports for the call that gets
\* this id; they are reported on its first argument
checkLiteralCompareOrder(args, compareActualFirst, id) ==
    IF Len(args) < 2 THEN <<>>
    ELSE IF /\ compareActualFirst
            /\ args[1].type = "Literal"
            /\ args[2].type # "Literal"
    THEN <<[node |-> id, part |-> "arguments[0]",
            messageId |-> "actualFirst",
            data |-> [expected |-> getText(args[1]),
                      actual |-> getText(args[2])],
            fix |-> swapFirstTwoNodesInList(args)]>>
    ELSE IF /\ ~compareActualFirst
            /\ args[1].type # "Literal"
            /\ args[2].type = "Literal"
    THEN <<[node |-> id, part |-> "arguments[0]",
            messageId |-> "expectedFirst",
            data |-> [expected |-> getText(args[1]),
                      actual |-> getText(args[2])],
            fix |-> swapFirstTwoNodesInList(args)]>>
    ELSE <<>>

processAssertion(node, assertVar, id) ==
    IF node.type # "CallExpression" THEN <<>>
    ELSE IF isComparativeAssertion(node.callee, assertVar)
    THEN checkLiteralCompareOrder(node.arguments,
             shouldCompareActualFirst(node.callee, assertVar), id)
    ELSE <<>>

\* The files of the specification: tests with and without an assert
\* parameter and a stray assertion in the file itself; in a test,
\* assert.equal with every choice of a, 'msg', true, (a, b) and ('msg', b)
\* for its first two arguments, with and without a message and with one
\* argument only; another comparative assertion, the bare equal, an
\* assertion that compares nothing and equal on another object, with the
\* literal first and second; and a test.
LiteralCompareOrder_Calls ==
    LET operands ==
            {Identifier("a"), Literal("string", "msg"),
             Literal("boolean", "true"),
             SequenceExpression(<<Identifier("a"), Identifier("b")>>),
             SequenceExpression(<<Literal("string", "msg"),
                                  Identifier("b")>>)}
    IN IF Len(ancestors) = 0
       THEN {TestCall(Dot("QUnit", "test"), <<Identifier("assert")>>),
             TestCall(Identifier("test"), <<>>),
             CallExpression(Dot("assert", "equal"),
                 <<Literal("string", "msg"), Identifier("a")>>)}
       ELSE {CallExpression(Dot("assert", "equal"),
                            <<first, second>> \o rest) :
               first \in operands, second \in operands,
               rest \in {<<>>, <<Literal("string", "msg")>>}}
            \cup {CallExpression(callee, arguments) :
                    callee \in {Dot("assert", "notStrictEqual"),
                                Identifier("equal"), Dot("assert", "ok"),
                                Dot("foo", "equal")},
                    arguments \in
                        {<<Identifier("a"), Literal("string", "msg")>>,
                         <<Literal("string", "msg"), Identifier("a")>>}}
            \cup {CallExpression(Dot("assert", "equal"),
                                 <<Literal("string", "msg")>>),
                  TestCall(Identifier("test"), <<Identifier("foo")>>)}

LiteralCompareOrder_Init ==
    /\ WalkInit("literal-compare-order")
    /\ state = [testStack |-> <<>>]

LiteralCompareOrder_CallExpression ==
    \E node \in LiteralCompareOrder_Calls :
        /\ InCallbackOrFile
        /\ Enter(NewNode(node, StatementIn("ExpressionStatement")),
                 MaxNodesLiteralCompareOrder, MaxDepthLiteralCompareOrder)
        /\ IF isTest(node.callee)
           THEN /\ state' = [testStack |->
                     Append(LiteralCompareOrder_testStack,
                         [assertContextVar |->
                              getAssertContextNameForTest(node.arguments)])]
                /\ UNCHANGED <<reports, crashed>>
           ELSE IF Len(LiteralCompareOrder_testStack) > 0
           THEN \* getAssertContext is called, and its assertion fails on
                \* an empty stack
                IF Len(LiteralCompareOrder_testStack) = 0
                THEN crashed' = TRUE /\ UNCHANGED <<state, reports>>
                ELSE /\ reports' =
                          LET assertVar == getAssertContext
                          IN IF utils_isAssertion(node.callee, assertVar)
                             THEN reports \o processAssertion(
                                      node, assertVar, Len(nodes) + 1)
                             ELSE reports
                     /\ UNCHANGED <<state, crashed>>
           ELSE UNCHANGED <<state, reports, crashed>>

LiteralCompareOrder_CallExpressionExit ==
    /\ Leave
    /\ state' = [testStack |->
                    IF isTest(Leaving.ast.callee)
                    THEN Pop(LiteralCompareOrder_testStack)
                    ELSE LiteralCompareOrder_testStack]
    /\ UNCHANGED <<reports, crashed>>

LiteralCompareOrder_Next ==
    \/ LiteralCompareOrder_CallExpression
    \/ LiteralCompareOrder_CallExpressionExit

SpecLiteralCompareOrder ==
    LiteralCompareOrder_Init /\ [][LiteralCompareOrder_Next]_vars

----------------------------------------------------------------------------
(* literal-compare-order, as claimed.                                       *)

ComparativeAssertions ==
    {"deepEqual", "equal", "notDeepEqual", "notEqual", "notPropEqual",
     "notStrictEqual", "propEqual", "strictEqual"}

\* a call of a comparative assertion on the assert variable of the test it
\* lies in, with two arguments or more
IsComparativeCall(c) ==
    /\ IsAssertionOfTest(c)
    /\ nodes[c].ast.callee.property.name \in ComparativeAssertions
    /\ Len(nodes[c].ast.arguments) >= 2

LiteralFirst(call) ==
    /\ Len(call.arguments) >= 2
    /\ call.arguments[1].type = "Literal"
    /\ call.arguments[2].type # "Literal"

\* The text of the call with the replacements made.  The text of a sequence
\* expression among the arguments stands in parentheses that are no part of
\* it; they stay where they are.
ApplyReplacements(call, fix) ==
    LET TextAt(i) ==
            LET mine == SelectSeq(fix, LAMBDA r : r.nodeToReplace = i)
            IN IF mine = <<>> THEN getText(call.arguments[i])
               ELSE mine[1].text
        InPlace(i) ==
            IF call.arguments[i].type = "SequenceExpression"
            THEN <<"(">> \o TextAt(i) \o <<")">>
            ELSE TextAt(i)
    IN getText(call.callee) \o <<"(">>
       \o Join([i \in 1..Len(call.arguments) |-> InPlace(i)], <<",">>)
       \o <<")">>

\* C17 as claimed: a comparative assertion of a test with two arguments or
\* more is reported if and only if its first argument is a literal and its
\* second is not; the fix is two replacements, of the first argument by the
\* text of the second and of the second by the text of the first, and the
\* call they leave is not reported again.
C17_LiteralCompareOrder ==
    \A c \in 1..Len(nodes) : IsComparativeCall(c) =>
        LET call == nodes[c].ast
            mine == ReportsOnNode(c)
        IN IF LiteralFirst(call)
           THEN /\ Len(mine) = 1
                /\ mine[1].fix =
                       <<[nodeToReplace |-> 1,
                          text |-> getText(call.arguments[2])],
                         [nodeToReplace |-> 2,
                          text |-> getText(call.arguments[1])]>>
                /\ ~LiteralFirst(
                       ParseCall(ApplyReplacements(call, mine[1].fix)))
           ELSE mine = <<>>

----------------------------------------------------------------------------
(* utils.getAssertContextNameForTest, applied to the arguments of a test    *)
(* call: the variable the rules take for the assert object.                 *)

ArrowFunctionExpression(params) ==
    [type |-> "ArrowFunctionExpression", params |-> params]

\* a destructured parameter, { ok }
ObjectPattern == [type |-> "ObjectPattern"]

\* a parameter with a default value, left = {}
AssignmentPattern(left) == [type |-> "AssignmentPattern", left |-> left]

RECURSIVE SeqsUpTo(_, _)
SeqsUpTo(set, n) ==
    IF n = 0 THEN {<<>>}
    ELSE LET shorter == SeqsUpTo(set, n - 1)
         IN shorter \cup {Append(q, e) : q \in shorter, e \in set}

\* The parameter lists of a callback: up to MaxParams parameters, each the
\* this annotation, a name, a destructuring pattern or a name with a
\* default value.
AssertContext_Params ==
    SeqsUpTo({Identifier("this"), Identifier("assert"), Identifier("foo"),
              ObjectPattern, AssignmentPattern(Identifier("assert"))},
             MaxParams)

\* The argument lists of a test call: a name alone; a name and a callback
\* or something else; a callback after an argument that is no function; and
\* a second callback after the first.
AssertContext_Arguments ==
    LET name == Literal("string", "a")
        notAFunction == Identifier("notAFunction")
        others == {FunctionExpression(params) :
                      params \in AssertContext_Params}
                  \cup {ArrowFunctionExpression(<<Identifier("foo")>>),
                        notAFunction}
    IN {<<name>>}
       \cup {<<name, x>> : x \in others}
       \cup {<<name, notAFunction, x>> : x \in others}
       \cup {<<name, x, FunctionExpression(<<Identifier("bar")>>)>> :
               x \in others}

AssertContext_Init ==
    /\ WalkInit("utils.getAssertContextNameForTest")
    /\ \E argumentsNodes \in AssertContext_Arguments :
           state = [argumentsNodes |-> argumentsNodes,
                    returned |-> FALSE, result |-> Null]

AssertContext_Call ==
    /\ ~state.returned
    /\ state' = [state EXCEPT
                    !.returned = TRUE,
                    !.result = getAssertContextNameForTest(
                                   state.argumentsNodes)]
    /\ UNCHANGED <<rule, nodes, ancestors, reports, crashed>>

AssertContext_Next == AssertContext_Call

SpecAssertContext == AssertContext_Init /\ [][AssertContext_Next]_vars

\* the arguments that are function expressions or arrow functions, in order
FunctionLikeArguments == SelectSeq(state.argumentsNodes, IsFunctionLike)

\* the parameters of the first of them that are no this annotation
NotThisParams ==
    SelectSeq(FunctionLikeArguments[1].params,
              LAMBDA p : p # Identifier("this"))

\* C18 as claimed: the assert variable is null when no argument is
\* function-like or its first function-like argument has no parameter other
\* than this annotations; otherwise it is the name of the first parameter
\* that is no this annotation, and never a parameter after that one.
C18_AssertContextName ==
    state.returned =>
        IF FunctionLikeArguments = <<>> THEN state.result = Null
        ELSE IF NotThisParams = <<>> THEN state.result = Null
        ELSE IF NotThisParams[1].type = "Identifier"
        THEN state.result = NotThisParams[1].name
        ELSE state.result = Null

----------------------------------------------------------------------------
(* no-async-in-loops (lib/rules/no-async-in-loops.js).                      *)

loopStack == state.loopStack

assertVariableStack == state.assertVariableStack

LOOP_NODE_TYPES ==
    {"WhileStatement", "DoWhileStatement", "ForStatement", "ForInStatement",
     "ForOfStatement"}

NoAsyncInLoops_isAsyncCallExpression(node) ==
    IF Len(assertVariableStack) = 0 THEN FALSE
    ELSE utils_isAsyncCallExpression(node, Top(assertVariableStack))

getLoopTypeText(loopType) ==
    CASE loopType = "WhileStatement" -> "while loop"
      [] loopType = "DoWhileStatement" -> "do-while loop"
      [] loopType = "ForStatement" -> "for loop"
      [] loopType = "ForInStatement" -> "for-in loop"
      [] loopType = "ForOfStatement" -> "for-of loop"

\* the call type, "" standing for undefined
getAsyncCallType(node) ==
    IF NoAsyncInLoops_isAsyncCallExpression(node)
    THEN Top(assertVariableStack) \o ".async()"
    ELSE IF node.type = "CallExpression" /\ isStop(node.callee)
    THEN "stop()"
    ELSE IF node.type = "CallExpression" /\ isStart(node.callee)
    THEN "start()"
    ELSE ""

\* the diagnostic reportError reports on the node that gets this id
NoAsyncInLoops_reportError(node, id) ==
    LET loopNode == nodes[Top(loopStack)].ast
        loopType == loopNode.type
    IN [node |-> id, messageId |-> "unexpectedAsyncInLoop",
        data |-> [call |-> getAsyncCallType(node),
                  loopTypeText |-> getLoopTypeText(loopType)]]

\* The statements the walk may enter next.  In the file itself: tests with
\* and without an assert parameter, a loop and a stray stop().  In the
\* callback of a test and in the body of a loop: stop, start and async
\* calls, async on another object, the five loops, and tests with and
\* without an assert parameter.
NoAsyncInLoops_Statements ==
    IF Len(ancestors) = 0
    THEN {TestCall(Dot("QUnit", "test"), <<Identifier("assert")>>),
          TestCall(Identifier("test"), <<>>),
          [type |-> "WhileStatement"],
          CallExpression(Identifier("stop"), <<>>)}
    ELSE {CallExpression(Identifier("stop"), <<>>),
          CallExpression(Dot("QUnit", "start"), <<>>),
          CallExpression(Dot("assert", "async"), <<>>),
          CallExpression(Dot("foo", "async"), <<>>),
          TestCall(Identifier("test"), <<>>),
          TestCall(Identifier("test"), <<Identifier("foo")>>)}
         \cup {[type |-> t] : t \in LOOP_NODE_TYPES}

\* the nodes between a statement and the innermost open node: the body of
\* a loop is a block, the body of a callback a block of a function
NoAsyncInLoops_Between(stmt) ==
    LET kind == IF stmt.type = "CallExpression"
                THEN <<"ExpressionStatement">> ELSE <<>>
    IN IF Len(ancestors) = 0 THEN kind
       ELSE IF Leaving.ast.type \in LOOP_NODE_TYPES
       THEN kind \o <<"BlockStatement">>
       ELSE kind \o <<"BlockStatement", "FunctionExpression">>

\* the innermost open node has a body: it is a loop, or a call whose last
\* argument is a function
NoAsyncInLoops_InBody ==
    IF Len(ancestors) = 0 THEN TRUE
    ELSE IF Leaving.ast.type \in LOOP_NODE_TYPES THEN TRUE
    ELSE InCallbackOrFile

NoAsyncInLoops_Init ==
    /\ WalkInit("no-async-in-loops")
    /\ state = [loopStack |-> <<>>, assertVariableStack |-> <<>>]

NoAsyncInLoops_CallExpression ==
    \E node \in {n \in NoAsyncInLoops_Statements :
                    n.type = "CallExpression"} :
        /\ NoAsyncInLoops_InBody
        /\ Enter(NewNode(node, NoAsyncInLoops_Between(node)),
                 MaxNodesNoAsyncInLoops, MaxDepthNoAsyncInLoops)
        /\ IF isTest(node.callee)
           THEN LET assertContextVar ==
                        getAssertContextNameForTest(node.arguments)
                IN /\ state' =
                        IF assertContextVar = Null THEN state
                        ELSE [state EXCEPT !.assertVariableStack =
                                 Append(assertVariableStack,
                                        assertContextVar)]
                   /\ UNCHANGED reports
           ELSE /\ reports' =
                     IF Len(loopStack) > 0
                     THEN LET isStopOrStartOrAsync ==
                                  \/ NoAsyncInLoops_isAsyncCallExpression(
                                         node)
                                  \/ isStop(node.callee)
                                  \/ isStart(node.callee)
                          IN IF isStopOrStartOrAsync
                             THEN Append(reports,
                                      NoAsyncInLoops_reportError(
                                          node, Len(nodes) + 1))
                             ELSE reports
                     ELSE reports
                /\ UNCHANGED state
        /\ UNCHANGED crashed

\* Array.prototype.pop leaves an empty array empty
NoAsyncInLoops_CallExpressionExit ==
    /\ Leave
    /\ Leaving.ast.type = "CallExpression"
    /\ state' = IF isTest(Leaving.ast.callee)
                THEN [state EXCEPT !.assertVariableStack =
                         Pop(assertVariableStack)]
                ELSE state
    /\ UNCHANGED <<reports, crashed>>

\* WhileStatement, DoWhileStatement, ForStatement, ForInStatement and
\* ForOfStatement
NoAsyncInLoops_Loop ==
    \E node \in {n \in NoAsyncInLoops_Statements :
                    n.type \in LOOP_NODE_TYPES} :
        /\ NoAsyncInLoops_InBody
        /\ Enter(NewNode(node, NoAsyncInLoops_Between(node)),
                 MaxNodesNoAsyncInLoops, MaxDepthNoAsyncInLoops)
        /\ state' = [state EXCEPT
                        !.loopStack = Append(loopStack, Len(nodes) + 1)]
        /\ UNCHANGED <<reports, crashed>>

\* the exit handlers of the loops: popAndMatch
NoAsyncInLoops_LoopExit ==
    /\ ~crashed
    /\ Len(ancestors) > 0
    /\ Leaving.ast.type \in LOOP_NODE_TYPES
    /\ LET expectedNode == Top(ancestors)
           actualNode == Top(loopStack)
       IN /\ state' = [state EXCEPT !.loopStack = Pop(loopStack)]
          /\ IF actualNode = expectedNode
             THEN /\ ancestors' = Pop(ancestors)
                  /\ UNCHANGED crashed
             ELSE /\ crashed' = TRUE
                  /\ UNCHANGED ancestors
    /\ UNCHANGED <<rule, nodes, reports>>

NoAsyncInLoops_Next ==
    \/ NoAsyncInLoops_CallExpression
    \/ NoAsyncInLoops_CallExpressionExit
    \/ NoAsyncInLoops_Loop
    \/ NoAsyncInLoops_LoopExit

SpecNoAsyncInLoops == NoAsyncInLoops_Init /\ [][NoAsyncInLoops_Next]_vars

----------------------------------------------------------------------------
(* no-async-in-loops, as claimed.                                           *)

IsLoop(i) == nodes[i].ast.type \in LOOP_NODE_TYPES

\* the innermost loop node c lies in, 0 when it lies in none
RECURSIVE LoopAround(_)
LoopAround(c) ==
    LET p == nodes[c].parent
    IN IF p = 0 THEN 0 ELSE IF IsLoop(p) THEN p ELSE LoopAround(p)

\* the text the claim gives a stop, start or async call of a test, "" for
\* any other node
AsyncCallText(c) ==
    LET node == nodes[c].ast
        assertVar == BoundAssertVar(TestOf(c))
    IN IF node.type # "CallExpression" THEN ""
       ELSE IF Calls(node, {"stop"}) THEN "stop()"
       ELSE IF Calls(node, {"start"}) THEN "start()"
       ELSE IF assertVar # Null
               /\ node = CallExpression(Dot(assertVar, "async"), <<>>)
       THEN assertVar \o ".async()"
       ELSE ""

LoopKind(type) ==
    CASE type = "WhileStatement" -> "while loop"
      [] type = "DoWhileStatement" -> "do-while loop"
      [] type = "ForStatement" -> "for loop"
      [] type = "ForInStatement" -> "for-in loop"
      [] type = "ForOfStatement" -> "for-of loop"

\* C19 as claimed: a stop, start or <assertVar>.async() call of a test is
\* reported once, with its call text and the kind of the innermost loop
\* around it, when it lies in a loop, and not at all when it lies in none.
C19_AsyncInLoops ==
    \A c \in 1..Len(nodes) :
        (Live(c) /\ TestOf(c) # 0 /\ AsyncCallText(c) # "") =>
            ReportsOnNode(c) =
                IF LoopAround(c) = 0 THEN <<>>
                ELSE <<[node |-> c, messageId |-> "unexpectedAsyncInLoop",
                        data |-> [call |-> AsyncCallText(c),
                                  loopTypeText |->
                                      LoopKind(nodes[LoopAround(c)].ast
                                                   .type)]]>>

----------------------------------------------------------------------------
(* require-expect (lib/rules/require-expect.js).                            *)

currentTest == state.currentTest

\* currentTest when it is undefined; node 0 is no node
NoTest ==
    [assertName |-> Null, node |-> 0, blockDepth |-> 0,
     isExpectUsed |-> FALSE, didReport |-> FALSE,
     isNonZeroExpectUsed |-> FALSE]

HasCurrentTest == currentTest.node # 0

\* the source text of a literal
Raw(literal) ==
    IF literal.kind = "string" THEN "'" \o literal.value \o "'"
    ELSE literal.value

isExpectCall(callee) ==
    LET isGlobalExpectCall ==
            callee.type = "Identifier" /\ callee.name = "expect"
        isAssertExpectCall ==
            /\ callee.type = "MemberExpression"
            /\ callee.object.type = "Identifier"
            /\ HasCurrentTest
            /\ callee.object.name = currentTest.assertName
            /\ callee.property.type = "Identifier"
            /\ callee.property.name = "expect"
    IN isGlobalExpectCall \/ isAssertExpectCall

isNonZeroExpectCall(node) ==
    IF node.type # "CallExpression" THEN FALSE
    ELSE /\ isExpectCall(node.callee)
         /\ ~(/\ Len(node.arguments) = 1
              /\ node.arguments[1].type = "Literal"
              /\ Raw(node.arguments[1]) = "0")

isTopLevelExpectCall(callee) ==
    IF ~HasCurrentTest THEN FALSE
    ELSE isExpectCall(callee) /\ currentTest.blockDepth = 1

isViolatingExceptSimpleRule(node) ==
    LET isUsingAssertInNestedBlock ==
            /\ currentTest.blockDepth > 1
            /\ node.type = "CallExpression"
            /\ \/ currentTest.assertName = Null
               \/ utils_isAssertion(node.callee, currentTest.assertName)
        isPassingAssertAsArgument ==
            IF currentTest.assertName = Null THEN FALSE
            ELSE IF node.type # "CallExpression" THEN FALSE
            ELSE \E i \in 1..Len(node.arguments) :
                     /\ node.arguments[i].type = "Identifier"
                     /\ node.arguments[i].name = currentTest.assertName
    IN IF ~HasCurrentTest THEN FALSE
       ELSE /\ ~currentTest.isExpectUsed
            /\ isUsingAssertInNestedBlock \/ isPassingAssertAsArgument

\* the test context captured for the call that gets this id
captureTestContext(node, id) ==
    IF node.type # "CallExpression" THEN currentTest
    ELSE [NoTest EXCEPT
             !.assertName = getAssertContextNameForTest(node.arguments),
             !.node = id]

assertionMessageData ==
    [expect |-> IF HasCurrentTest /\ currentTest.assertName # Null
                THEN currentTest.assertName \o ".expect"
                ELSE "expect"]

\* What a handler leaves: currentTest and the diagnostics.  A handler that
\* reports does so on the call of the current test.
After(test, diagnostics) == [currentTest |-> test, reports |-> diagnostics]

Reporting(messageId) ==
    Append(reports, [node |-> currentTest.node, messageId |-> messageId,
                     data |-> assertionMessageData])

\* the CallExpression handler of the strategy
RequireExpect_OnCallExpression(strategy, node, id) ==
    LET ExceptSimpleStrategy ==
            IF HasCurrentTest /\ ~currentTest.didReport
            THEN IF isTopLevelExpectCall(node.callee)
                 THEN After([currentTest EXCEPT !.isExpectUsed = TRUE],
                            reports)
                 ELSE IF isViolatingExceptSimpleRule(node)
                 THEN After([currentTest EXCEPT !.didReport = TRUE],
                            Reporting("expectRequiredComplexTest"))
                 ELSE After(currentTest, reports)
            ELSE IF isTest(node.callee)
            THEN After(captureTestContext(node, id), reports)
            ELSE After(currentTest, reports)
        \* AlwaysStrategy and NeverStrategy have the same handler
        AlwaysStrategy ==
            IF HasCurrentTest /\ isExpectCall(node.callee)
            THEN After([currentTest EXCEPT !.isExpectUsed = TRUE], reports)
            ELSE IF isTest(node.callee)
            THEN After(captureTestContext(node, id), reports)
            ELSE After(currentTest, reports)
        NeverExceptZeroStrategy ==
            IF HasCurrentTest /\ isNonZeroExpectCall(node)
            THEN After([currentTest EXCEPT !.isNonZeroExpectUsed = TRUE],
                       reports)
            ELSE IF isTest(node.callee)
            THEN After(captureTestContext(node, id), reports)
            ELSE After(currentTest, reports)
    IN CASE strategy = "always" -> AlwaysStrategy
         [] strategy = "except-simple" -> ExceptSimpleStrategy
         [] strategy = "never" -> AlwaysStrategy
         [] strategy = "never-except-zero" -> NeverExceptZeroStrategy

\* the CallExpression:exit handler of the strategy
RequireExpect_OnCallExpressionExit(strategy, node) ==
    LET ExceptSimpleStrategy ==
            IF isTest(node.callee) THEN After(NoTest, reports)
            ELSE After(currentTest, reports)
        \* report messageId when the test's flag is as wanted, and release
        OnTestExit(flag, messageId) ==
            IF ~HasCurrentTest THEN After(currentTest, reports)
            ELSE IF isTest(node.callee)
            THEN After(NoTest,
                       IF flag THEN Reporting(messageId) ELSE reports)
            ELSE After(currentTest, reports)
    IN CASE strategy = "always" ->
                OnTestExit(~currentTest.isExpectUsed, "expectRequired")
         [] strategy = "except-simple" -> ExceptSimpleStrategy
         [] strategy = "never" ->
                OnTestExit(currentTest.isExpectUsed, "expectForbidden")
         [] strategy = "never-except-zero" ->
                OnTestExit(currentTest.isNonZeroExpectUsed,
                           "expectForbidden")

\* { always: ..., "except-simple": ..., never: ..., "never-except-zero": ... }
\* [option] || NeverExceptZeroStrategy, for an option that is undefined
\* (Null) or a string that names no property of Object.prototype
RequireExpect_Strategy(option) ==
    IF option \in {"always", "except-simple", "never", "never-except-zero"}
    THEN option
    ELSE "never-except-zero"

\* context.options[0]: nothing, one of the four names, or another string
RequireExpect_Options ==
    {Null, "always", "except-simple", "never", "never-except-zero",
     "sometimes"}

BlockStatement == [type |-> "BlockStatement"]

\* The calls the walk may enter next: in the file itself tests with and
\* without an assert parameter and a stray expect; in a block expect calls
\* on the assert variable with 1, with 0 and with no argument, a bare
\* expect, an assertion, a call that passes assert on, a call that does not,
\* and a test.
RequireExpect_Calls ==
    IF Len(ancestors) = 0
    THEN {TestCall(Dot("QUnit", "test"), <<Identifier("assert")>>),
          TestCall(Identifier("test"), <<>>),
          CallExpression(Identifier("expect"),
                         <<Literal("number", "1")>>)}
    ELSE {CallExpression(Dot("assert", "expect"),
                         <<Literal("number", "1")>>),
          CallExpression(Dot("assert", "expect"),
                         <<Literal("number", "0")>>),
          CallExpression(Dot("assert", "expect"), <<>>),
          CallExpression(Identifier("expect"),
                         <<Literal("number", "2")>>),
          CallExpression(Dot("assert", "ok"), <<Identifier("a")>>),
          CallExpression(Identifier("foo"), <<Identifier("assert")>>),
          CallExpression(Identifier("foo"), <<>>),
          TestCall(Identifier("test"), <<Identifier("assert")>>)}

\* the innermost open node is a block
RequireExpect_InBlock ==
    Len(ancestors) > 0 /\ Leaving.ast.type = "BlockStatement"

\* the innermost open node is a call with a callback whose body the walk
\* has not entered yet
RequireExpect_BeforeBody ==
    /\ Len(ancestors) > 0
    /\ Leaving.ast.type = "CallExpression"
    /\ InCallbackOrFile
    /\ \A i \in 1..Len(nodes) : nodes[i].parent # Top(ancestors)

RequireExpect_Init ==
    /\ WalkInit("require-expect")
    /\ \E option \in RequireExpect_Options :
           state = [option |-> option, currentTest |-> NoTest]

RequireExpect_CallExpression ==
    \E node \in RequireExpect_Calls :
        LET after == RequireExpect_OnCallExpression(
                         RequireExpect_Strategy(state.option), node,
                         Len(nodes) + 1)
        IN /\ Len(ancestors) = 0 \/ RequireExpect_InBlock
           /\ Enter(NewNode(node, <<"ExpressionStatement">>),
                    MaxNodesRequireExpect, MaxDepthRequireExpect)
           /\ state' = [state EXCEPT !.currentTest = after.currentTest]
           /\ reports' = after.reports
           /\ UNCHANGED crashed

RequireExpect_CallExpressionExit ==
    LET after == RequireExpect_OnCallExpressionExit(
                     RequireExpect_Strategy(state.option), Leaving.ast)
    IN /\ Leave
       /\ Leaving.ast.type = "CallExpression"
       /\ state' = [state EXCEPT !.currentTest = after.currentTest]
       /\ reports' = after.reports
       /\ UNCHANGED crashed

\* BlockStatement: the body of a callback, or the block of an if statement
\* in a block.  Only ExceptSimpleStrategy has a handler for it.
RequireExpect_BlockStatement ==
    \E between \in {<<"FunctionExpression">>, <<"IfStatement">>} :
        /\ IF between = <<"FunctionExpression">>
           THEN RequireExpect_BeforeBody
           ELSE RequireExpect_InBlock
        /\ Enter(NewNode(BlockStatement, between),
                 MaxNodesRequireExpect, MaxDepthRequireExpect)
        /\ state' =
               IF RequireExpect_Strategy(state.option) = "except-simple"
                      /\ HasCurrentTest
               THEN [state EXCEPT !.currentTest.blockDepth = @ + 1]
               ELSE state
        /\ UNCHANGED <<reports, crashed>>

RequireExpect_BlockStatementExit ==
    /\ Leave
    /\ Leaving.ast.type = "BlockStatement"
    /\ state' =
           IF RequireExpect_Strategy(state.option) = "except-simple"
                  /\ HasCurrentTest
           THEN [state EXCEPT !.currentTest.blockDepth = @ - 1]
           ELSE state
    /\ UNCHANGED <<reports, crashed>>

RequireExpect_Next ==
    \/ RequireExpect_CallExpression
    \/ RequireExpect_CallExpressionExit
    \/ RequireExpect_BlockStatement
    \/ RequireExpect_BlockStatementExit

SpecRequireExpect == RequireExpect_Init /\ [][RequireExpect_Next]_vars

----------------------------------------------------------------------------
(* require-expect, as claimed.                                              *)

\* node e is an expect call, bare or on the assert variable of test t, that
\* lies in test t and in no test inside it, other than one with the single
\* literal argument 0
IsNonZeroExpectOf(e, t) ==
    /\ Live(e)
    /\ nodes[e].ast.type = "CallExpression"
    /\ TestOf(e) = t
    /\ \/ nodes[e].ast.callee = Identifier("expect")
       \/ /\ BoundAssertVar(t) # Null
          /\ nodes[e].ast.callee = Dot(BoundAssertVar(t), "expect")
    /\ nodes[e].ast.arguments # <<Literal("number", "0")>>

\* what is reported on a test under never-except-zero
ExpectForbidden(t) ==
    [node |-> t, messageId |-> "expectForbidden",
     data |-> [expect |-> IF BoundAssertVar(t) = Null THEN "expect"
                          ELSE BoundAssertVar(t) \o ".expect"]]

\* C20 as claimed: with no option or an option that is none of the four
\* names, a test the walk has left is reported, once and as expectForbidden
\* on the test call, if and only if an expect call other than expect(0) was
\* visited in it; a test the walk is in is not yet reported.
C20_DefaultIsNeverExceptZero ==
    state.option \notin {"always", "except-simple", "never",
                         "never-except-zero"} =>
        \A t \in 1..Len(nodes) :
            (Live(t) /\ nodes[t].ast.type = "CallExpression"
                 /\ IsTestCall(t)) =>
                ReportsOnNode(t) =
                    IF Left(t) /\ \E e \in 1..Len(nodes) :
                                      IsNonZeroExpectOf(e, t)
                    THEN <<ExpectForbidden(t)>>
                    ELSE <<>>


----------------------------------------------------------------------------
(* The runs of a rule.  The host calls a rule's create function once for   *)
(* every file it lints, and the variables create declares are the rule's   *)
(* state of that run.  In this specification the rule variable is a        *)
(* record: the rule's name and one earlier run of the rule, the walk it    *)
(* was given and the diagnostics it answered with.                         *)

MaxNodesRuns == 2

\* the variables a call of create declares
create(name) ==
    IF name = "resolve-async"
    THEN [asyncStateStack |-> <<>>]
    ELSE [modulesStack |-> <<TOP_LEVEL_MODULE_NODE>>,
          mapModuleNodeToInfo |->
              [n \in {TOP_LEVEL_MODULE_NODE} |-> NoModulesNoTests]]

\* a run, as the host saw it
Run(file, open, diagnostics, threw) ==
    [file |-> file, open |-> open, reports |-> diagnostics, crashed |-> threw]

Runs_Init ==
    /\ rule \in {[name |-> name, earlier |-> Run(<<>>, <<>>, <<>>, FALSE)] :
                    name \in {"resolve-async", "no-identical-names"}}
    /\ nodes = <<>>
    /\ ancestors = <<>>
    /\ reports = <<>>
    /\ crashed = FALSE
    /\ state = create(rule.name)

Runs_create_AtModuleLevel ==
    /\ nodes # <<>>
    /\ ancestors = <<>> \/ crashed
    /\ \E kept \in BOOLEAN :
        rule' = [rule EXCEPT !.earlier =
                    IF kept THEN Run(nodes, ancestors, reports, crashed)
                    ELSE @]
    /\ nodes' = <<>>
    /\ ancestors' = <<>>
    /\ reports' = <<>>
    /\ crashed' = FALSE
    /\ UNCHANGED state

\* The run is over, the walk having left the file or a handler having
\* thrown, and the host lints the next file: it calls create again.
Runs_create ==
    /\ nodes # <<>>
    /\ ancestors = <<>> \/ crashed
    /\ \E kept \in BOOLEAN :
        rule' = [rule EXCEPT !.earlier =
                    IF kept THEN Run(nodes, ancestors, reports, crashed)
                    ELSE @]
    /\ nodes' = <<>>
    /\ ancestors' = <<>>
    /\ reports' = <<>>
    /\ crashed' = FALSE
    /\ state' = create(rule.name)

Runs_Next ==
    \/ /\ rule.name = "resolve-async"
       /\ ResolveAsync_CallbackNext
       /\ Len(nodes') <= MaxNodesRuns
    \/ /\ rule.name = "no-identical-names"
       /\ NoIdenticalNames_Next
       /\ Len(nodes') <= MaxNodesRuns
    \/ Runs_create

SpecRuns == Runs_Init /\ [][Runs_Next]_vars

\* the walk of this run is, so far, the walk of the earlier run: the same
\* nodes entered in the same order, and the same ones of them left
SameWalk ==
    /\ nodes = rule.earlier.file
    /\ ancestors = rule.earlier.open
    /\ \A i \in 1..Len(nodes) : nodes[i] # Forgotten

----------------------------------------------------------------------------
(* utils.getAllowedArities, applied to the callee of a call and the name   *)
(* the enclosing test binds to assert.                                     *)

getAllowedArities_None(calleeNode, assertVar) == <<>>

getAllowedArities(calleeNode, assertVar) ==
    LET assertionMetadata == getAssertionMetadata(calleeNode, assertVar)
    IN IF assertionMetadata = NullNode THEN <<>>
       ELSE assertionMetadata.allowedArities

\* The callees: the assertions and other names, bare and as a property of
\* assert, of another name and of QUnit.
AllowedArities_Callees ==
    LET names == {ASSERTION_METADATA[i].key :
                     i \in 1..Len(ASSERTION_METADATA)}
                 \cup {"expect", "async", "hasOwnProperty", "allowedArities"}
    IN {Identifier(name) : name \in names}
       \cup {Dot(object, name) :
               object \in {"assert", "t", "QUnit"}, name \in names}
       \cup {MemberExpression(Dot("self", "assert"), Identifier("ok"))}

AllowedArities_Init ==
    /\ WalkInit("utils.getAllowedArities")
    /\ \E calleeNode \in AllowedArities_Callees,
          assertVar \in {"assert", "t", Null} :
           state = [calleeNode |-> calleeNode, assertVar |-> assertVar,
                    returned |-> FALSE, result |-> <<>>]

AllowedArities_Call ==
    /\ ~state.returned
    /\ state' = [state EXCEPT
                    !.returned = TRUE,
                    !.result = getAllowedArities(state.calleeNode,
                                                 state.assertVar)]
    /\ UNCHANGED <<rule, nodes, ancestors, reports, crashed>>

AllowedArities_Next == AllowedArities_Call

SpecAllowedArities == AllowedArities_Init /\ [][AllowedArities_Next]_vars

\* the name a callee calls: of the identifier, or of the property
CalledName(calleeNode) ==
    IF calleeNode.type = "Identifier" THEN calleeNode.name
    ELSE calleeNode.property.name

\* the descriptors the metadata table has under a name
DescriptorsOf(name) ==
    {i \in 1..Len(ASSERTION_METADATA) : ASSERTION_METADATA[i].key = name}

\* Math.max of a list that is not empty
MathMax(list) ==
    CHOOSE x \in {list[i] : i \in 1..Len(list)} :
        \A i \in 1..Len(list) : x >= list[i]

\* C22: for every callee the classifier recognises as an assertion, the
\* metadata table has exactly one descriptor under the name called, the
\* allowed arities returned are those of that descriptor and are not
\* empty, and their maximum is 1 or 2.
C22_AritiesOfAssertions ==
    state.returned
        /\ utils_isAssertion(state.calleeNode, state.assertVar) =>
            /\ Cardinality(DescriptorsOf(CalledName(state.calleeNode))) = 1
            /\ \A i \in DescriptorsOf(CalledName(state.calleeNode)) :
                   state.result = ASSERTION_METADATA[i].value.allowedArities
            /\ state.result # <<>>
            /\ MathMax(state.result) \in {1, 2}

\* the arities of assert.throws, which has two, have been asked for
C22_Witness ==
    /\ state.returned
    /\ state.calleeNode = Dot("assert", "throws")
    /\ state.assertVar = "assert"
    /\ state.result = <<1, 2>>


----------------------------------------------------------------------------
(* require-expect with an option, as claimed.                              *)

\* the blocks node c lies in that lie in test t
BlocksBetween(c, t) ==
    {b \in AncestorsOf(c) :
        nodes[b].ast.type = "BlockStatement" /\ t \in AncestorsOf(b)}

\* node e is an expect call, bare or on the assert variable of test t
IsExpectOf(e, t) ==
    /\ Live(e)
    /\ nodes[e].ast.type = "CallExpression"
    /\ TestOf(e) = t
    /\ \/ nodes[e].ast.callee = Identifier("expect")
       \/ /\ BoundAssertVar(t) # Null
          /\ nodes[e].ast.callee = Dot(BoundAssertVar(t), "expect")

\* node c, a call of test t, makes the test complex: it calls an assertion
\* in a nested block, or passes the assert variable the test binds on
MakesComplex(c, t) ==
    /\ Live(c)
    /\ nodes[c].ast.type = "CallExpression"
    /\ TestOf(c) = t
    /\ \/ /\ Cardinality(BlocksBetween(c, t)) > 1
          /\ utils_isAssertion(nodes[c].ast.callee, BoundAssertVar(t))
       \/ /\ BoundAssertVar(t) # Null
          /\ \E i \in 1..Len(nodes[c].ast.arguments) :
                 nodes[c].ast.arguments[i] = Identifier(BoundAssertVar(t))

\* node c makes test t complex, and no expect call in the top-level block
\* of the callback of t was visited before it
ComplexBeforeExpect(c, t) ==
    /\ MakesComplex(c, t)
    /\ \A e \in 1..(c - 1) :
           ~(IsExpectOf(e, t) /\ Cardinality(BlocksBetween(e, t)) = 1)

ExpectRequiredComplexTest(t) ==
    [node |-> t, messageId |-> "expectRequiredComplexTest",
     data |-> [expect |-> IF BoundAssertVar(t) = Null THEN "expect"
                          ELSE BoundAssertVar(t) \o ".expect"]]

\* C23 as claimed: under except-simple a test is reported, once and as
\* expectRequiredComplexTest on the test call, if and only if the walk has
\* met in it, before any expect call in the top-level block of its
\* callback, a call of an assertion in a nested block or a call that
\* passes the bound assert variable on; expect calls that come later do
\* not matter, and other calls in nested blocks are not reported.
C23_ExceptSimple ==
    state.option = "except-simple" =>
        \A t \in 1..Len(nodes) :
            (Live(t) /\ nodes[t].ast.type = "CallExpression"
                 /\ IsTestCall(t)) =>
                ReportsOnNode(t) =
                    IF \E c \in 1..Len(nodes) : ComplexBeforeExpect(c, t)
                    THEN <<ExpectRequiredComplexTest(t)>>
                    ELSE <<>>


\* node e is an expect call, bare or on the assert variable of test t,
\* visited between the entry and the exit of t
IsExpectIn(e, t) ==
    /\ Live(e)
    /\ nodes[e].ast.type = "CallExpression"
    /\ t \in AncestorsOf(e)
    /\ \/ nodes[e].ast.callee = Identifier("expect")
       \/ /\ BoundAssertVar(t) # Null
          /\ nodes[e].ast.callee = Dot(BoundAssertVar(t), "expect")

ExpectRequired(t) ==
    [node |-> t, messageId |-> "expectRequired",
     data |-> [expect |-> IF BoundAssertVar(t) = Null THEN "expect"
                          ELSE BoundAssertVar(t) \o ".expect"]]

\* C24 as claimed: under always a test the walk has left is reported, once
\* and as expectRequired on the test call, if and only if no expect call
\* was visited in it; under never it is reported, once and as
\* expectForbidden, if and only if one was; a test the walk is in is not
\* yet reported.  This for every test of the file, nested ones and those
\* with tests nested in them included.
C24_AlwaysAndNever ==
    state.option \in {"always", "never"} =>
        \A t \in 1..Len(nodes) :
            (Live(t) /\ nodes[t].ast.type = "CallExpression"
                 /\ IsTestCall(t)) =>
                LET used == \E e \in 1..Len(nodes) : IsExpectIn(e, t)
                IN ReportsOnNode(t) =
                       IF ~Left(t) THEN <<>>
                       ELSE IF state.option = "always"
                       THEN (IF used THEN <<>> ELSE <<ExpectRequired(t)>>)
                       ELSE (IF used THEN <<ExpectForbidden(t)>> ELSE <<>>)


----------------------------------------------------------------------------
(* no-identical-names: tests, and the ancestors of modules, as claimed.    *)

\* a test registration with a literal title
IsNamedTest(i) ==
    /\ IsTestCall(i)
    /\ Len(nodes[i].ast.arguments) > 0
    /\ nodes[i].ast.arguments[1].type = "Literal"

\* the module registrations in whose callback node i lies
EnclosingModules(i) ==
    {m \in AncestorsOf(i) : IsModuleCall(m) /\ ModuleCallback(m) # NullNode}

\* the innermost of them, 0 for the implicit module of the file
EnclosingModule(i) ==
    IF EnclosingModules(i) = {} THEN 0
    ELSE CHOOSE m \in EnclosingModules(i) :
             \A k \in EnclosingModules(i) : m >= k

\* the registrations module('name') without a callback that precede node i
\* at its nesting level
CallbacklessBefore(i) ==
    {m \in 1..(i - 1) :
        /\ IsNamedModule(m)
        /\ ModuleCallback(m) = NullNode
        /\ nodes[m].parent = nodes[i].parent}

\* the module a test belongs to
ModuleOfTest(i) ==
    IF CallbacklessBefore(i) = {} THEN EnclosingModule(i)
    ELSE CHOOSE m \in CallbacklessBefore(i) :
             \A k \in CallbacklessBefore(i) : m >= k

\* the tests of the module of test i registered before it under its title
EarlierTests(i) ==
    {j \in 1..(i - 1) :
        /\ IsNamedTest(j)
        /\ ModuleOfTest(j) = ModuleOfTest(i)
        /\ nodes[j].ast.arguments[1] = nodes[i].ast.arguments[1]}

DuplicateTest(i) ==
    [node |-> i, part |-> "arguments[0]", messageId |-> "duplicateTest",
     data |-> [line |-> NumberToString(
                  nodes[CHOOSE j \in EarlierTests(i) :
                            \A k \in EarlierTests(i) : j <= k].line)]]

\* C25 as claimed: a test with a literal title is reported, once and as
\* duplicateTest on its title with the line of the first test of that
\* title, if and only if an earlier test of its module has the title; a
\* test belongs to the last module registration without a callback before
\* it at its nesting level, else to the innermost module whose callback it
\* lies in, else to the file.
C25_TestsOfOneModule ==
    \A i \in 1..Len(nodes) :
        IsNamedTest(i) =>
            ReportsOnName(i) =
                IF EarlierTests(i) = {} THEN <<>> ELSE <<DuplicateTest(i)>>


\* the modules that enclose module i and have its name
SameNameAncestors(i) ==
    {j \in AncestorsOf(i) :
        /\ IsNamedModule(j)
        /\ nodes[j].ast.arguments[1] = nodes[i].ast.arguments[1]}

\* what is reported on the name of a module inside a module of its name
DuplicateModuleAncestor(i) ==
    [node |-> i, part |-> "arguments[0]",
     messageId |-> "duplicateModuleAncestor",
     data |-> [line |-> NumberToString(
                  nodes[CHOOSE j \in SameNameAncestors(i) :
                            \A k \in SameNameAncestors(i) : j <= k].line)]]

----------------------------------------------------------------------------
(* no-hooks-from-ancestor-modules: what is reported, and the stack at a    *)
(* hook invocation, as claimed.                                            *)

\* the modules around the module in whose callback call h is a statement
StrictAncestorModules(h) ==
    {q \in AncestorsOf(nodes[h].parent) : OpensModuleFrame(q)}

\* C27 as claimed: a call is reported only if it is a beforeEach or
\* afterEach call in the body of a module's callback and the identifier it
\* is called on is the hooks parameter of a module around that module; a
\* call on an identifier that no enclosing module binds is not reported.
C27_OnlyHooksOfAncestors ==
    \A h \in 1..Len(nodes) :
        Live(h) /\ ReportsOnCallee(h) # <<>> =>
            /\ IsNestableHookCall(h)
            /\ \E q \in StrictAncestorModules(h) :
                   HooksParamOf(q) = nodes[h].ast.callee.object.name


\* C28 as claimed: when the rule has evaluated a hook invocation, a
\* beforeEach or afterEach call that is a statement of the body of a
\* module's callback, its module stack was not empty and the handler did
\* not throw, whatever the shape of the module call and whatever modules
\* were left before.
C28_StackAtHookInvocation ==
    \A h \in 1..Len(nodes) :
        (IsNestableHookCall(h) /\ Len(ancestors) > 0 /\ Top(ancestors) = h
            /\ nodes[h].ast.callee.object.type = "Identifier") =>
            /\ ~crashed
            /\ Len(moduleStack) > 0


----------------------------------------------------------------------------
(* no-conditional-assertions: the outward walk, as claimed.                *)

\* C29 as claimed: the outward walk from an assertion call on the assert
\* variable of the test it lies in ends on a function or on a conditional
\* and never runs past the root, and the rule does not throw; also when the
\* call is an argument of the test registration itself.
C29_OutwardWalkEnds ==
    /\ ~crashed
    /\ \A c \in 1..Len(nodes) :
           IsAssertionOfTest(c) =>
               WalkOutward(nodes[c]) \in STOP_NODE_TYPES
                                         \cup CONDITIONAL_NODE_TYPES


----------------------------------------------------------------------------
(* resolve-async: the frames below the innermost, as claimed.              *)

\* the walk enters a stop or start call, an invocation of a callback, or
\* an assignment or initialisation of a variable
EntersCallOrAssignment ==
    IF Len(nodes') # Len(nodes) + 1 THEN FALSE
    ELSE LET node == nodes'[Len(nodes')].ast
         IN IF node.type = "CallExpression"
            THEN /\ ~isTest(node.callee)
                 /\ \/ getAsyncCallbackVarOrNull(node.callee) # Null
                    \/ isStop(node.callee)
                    \/ isStart(node.callee)
            ELSE node.type \in {"AssignmentExpression", "VariableDeclarator"}

\* C30: a stop or start call, an assignment of an async callback and an
\* invocation of a callback leave the stack as long as it was and every
\* frame but the innermost as it was, and report nothing; with no frame
\* open they change nothing.
C30_OnlyInnermostFrame ==
    [][EntersCallOrAssignment =>
          /\ Len(asyncStateStack') = Len(asyncStateStack)
          /\ \A k \in 1..(Len(asyncStateStack) - 1) :
                 asyncStateStack'[k] = asyncStateStack[k]
          /\ reports' = reports
          /\ crashed' = crashed]_vars

\* a test that called stop holds a test, and the walk is at a stop call
\* in the inner test: either frame has counted one stop
C30_Witness ==
    /\ Len(asyncStateStack) = 2
    /\ Len(ancestors) > 0
    /\ nodes[Top(ancestors)].ast.type = "CallExpression"
    /\ isStop(nodes[Top(ancestors)].ast.callee)
    /\ asyncStateStack[1].stopSemaphoreCount = Num(1)
    /\ asyncStateStack[2].stopSemaphoreCount = Num(1)


----------------------------------------------------------------------------
(* lib/rules/no-ok-equality.js *)

\* isOk and isNotOk: a call of one of the names, bare when the options
\* allow it, or on the assert variable of the innermost frame
NoOkEquality_isOk(calleeNode) ==
    LET asyncStateStack_ == state.asyncStateStack
        \* getAssertContextVar
        assertContextVar ==
            IF Len(asyncStateStack_) = 0 THEN Null
            ELSE asyncStateStack_[Len(asyncStateStack_)].assertContextVar
        isOk == calleeNode.type = "Identifier"
                    /\ calleeNode.name \in POSITIVE_ASSERTIONS
        isAssertOk ==
            IF calleeNode.type # "MemberExpression" THEN FALSE
            ELSE /\ calleeNode.object.type = "Identifier"
                 /\ assertContextVar # Null
                 /\ calleeNode.object.name = assertContextVar
                 /\ calleeNode.property.type = "Identifier"
                 /\ calleeNode.property.name \in POSITIVE_ASSERTIONS
    IN IF state.options.allowGlobal THEN isOk \/ isAssertOk
       ELSE isAssertOk

NoOkEquality_isNotOk(calleeNode) ==
    LET asyncStateStack_ == state.asyncStateStack
        \* getAssertContextVar
        assertContextVar ==
            IF Len(asyncStateStack_) = 0 THEN Null
            ELSE asyncStateStack_[Len(asyncStateStack_)].assertContextVar
        isOk == calleeNode.type = "Identifier"
                    /\ calleeNode.name \in NEGATIVE_ASSERTIONS
        isAssertOk ==
            IF calleeNode.type # "MemberExpression" THEN FALSE
            ELSE /\ calleeNode.object.type = "Identifier"
                 /\ assertContextVar # Null
                 /\ calleeNode.object.name = assertContextVar
                 /\ calleeNode.property.type = "Identifier"
                 /\ calleeNode.property.name \in NEGATIVE_ASSERTIONS
    IN IF state.options.allowGlobal THEN isOk \/ isAssertOk
       ELSE isAssertOk

\* the diagnostics checkArguments reports on the node that gets this id;
\* the fix is the text that replaces the call, as tokens
checkArguments(args, isCalleeNegative, node, id) ==
    LET asyncStateStack_ == state.asyncStateStack
        assertVar == asyncStateStack_[Len(asyncStateStack_)].assertContextVar
        firstArg == args[1]
        isBinary == firstArg.type = "BinaryExpression"
        isArgEqual ==
            isBinary /\ firstArg.operator \in {"===", "==", "!==", "!="}
        isArgStrictEqual == isBinary /\ firstArg.operator \in {"===", "!=="}
        isArgNegative == isBinary /\ firstArg.operator \in {"!==", "!="}
        \* getSuggestedAssertion
        negative == isArgNegative # isCalleeNegative
        assertMethod ==
            IF isArgStrictEqual
            THEN (IF negative THEN "notStrictEqual" ELSE "strictEqual")
            ELSE (IF negative THEN "notEqual" ELSE "equal")
        suggestion ==
            IF assertVar # Null THEN <<assertVar, ".", assertMethod>>
            ELSE <<assertMethod>>
        a == getText(firstArg.left)
        b == getText(firstArg.right)
        newArgs == <<a, b>> \o [i \in 1..(Len(args) - 1) |->
                                   getText(args[i + 1])]
    IN IF Len(args) = 0 THEN <<>>
       ELSE IF ~isBinary THEN <<>>
       ELSE IF ~isArgEqual THEN <<>>
       ELSE <<[node |-> id, messageId |-> "noEqualityCheckInOk",
               data |-> [assertion |-> getText(node.callee),
                         suggestion |-> suggestion, a |-> a, b |-> b],
               fix |-> suggestion \o <<"(">> \o Join(newArgs, <<",">>)
                           \o <<")">>]>>

\* The first arguments of the specification: comparisons of a, or of the
\* sequence expression (a, b), with c under the four equality operators and
\* under another operator, a name, and a negation.
NoOkEquality_FirstArguments ==
    {BinaryExpression(operator, left, Identifier("c")) :
        operator \in {"===", "==", "!==", "!=", "<"},
        left \in {Identifier("a"),
                  SequenceExpression(<<Identifier("a"), Identifier("b")>>)}}
    \cup {Identifier("a"), UnaryExpression("!", Identifier("a"))}

\* The files of the specification: tests with and without an assert
\* parameter and a stray assertion in the file itself; in a test, calls of
\* the four assertions on assert and bare, of another assertion and of ok
\* on another object, with and without a message, and a call without
\* arguments.
NoOkEquality_Calls ==
    IF Len(ancestors) = 0
    THEN {TestCall(Dot("QUnit", "test"), <<Identifier("assert")>>),
          TestCall(Identifier("test"), <<>>),
          CallExpression(Dot("assert", "ok"),
              <<BinaryExpression("===", Identifier("a"), Identifier("c"))>>)}
    ELSE {CallExpression(callee, <<first>> \o rest) :
            callee \in {Dot("assert", "ok"), Dot("assert", "notOk"),
                        Dot("assert", "true"), Dot("assert", "false"),
                        Identifier("ok"), Identifier("notOk"),
                        Dot("assert", "equal"), Dot("t", "ok")},
            first \in NoOkEquality_FirstArguments,
            rest \in {<<>>, <<Literal("string", "msg")>>}}
         \cup {CallExpression(Dot("assert", "ok"), <<>>)}

\* options = context.options[0] || DEFAULT_OPTIONS
NoOkEquality_Init ==
    /\ WalkInit("no-ok-equality")
    /\ \E options \in {Null, "allowGlobal: true", "allowGlobal: false"} :
           state = [asyncStateStack |-> <<>>,
                    options |-> [allowGlobal |->
                                    options # "allowGlobal: false"]]

NoOkEquality_CallExpression ==
    \E node \in NoOkEquality_Calls :
        /\ InCallbackOrFile
        /\ Enter(NewNode(node, StatementIn("ExpressionStatement")),
                 MaxNodesNoOkEquality, MaxDepthNoOkEquality)
        /\ IF Len(state.asyncStateStack) > 0
                 /\ (NoOkEquality_isOk(node.callee)
                         \/ NoOkEquality_isNotOk(node.callee))
           THEN /\ reports' = reports \o
                       checkArguments(node.arguments,
                                      NoOkEquality_isNotOk(node.callee),
                                      node, Len(nodes) + 1)
                /\ UNCHANGED state
           ELSE IF isTest(node.callee)
           THEN /\ state' = [state EXCEPT !.asyncStateStack =
                       Append(@, [assertContextVar |->
                           getAssertContextNameForTest(node.arguments)])]
                /\ UNCHANGED reports
           ELSE UNCHANGED <<state, reports>>
        /\ UNCHANGED crashed

NoOkEquality_CallExpressionExit ==
    /\ Leave
    /\ state' = [state EXCEPT !.asyncStateStack =
                    IF isTest(Leaving.ast.callee) THEN Pop(@) ELSE @]
    /\ UNCHANGED <<reports, crashed>>

NoOkEquality_Next ==
    \/ NoOkEquality_CallExpression
    \/ NoOkEquality_CallExpressionExit

SpecNoOkEquality == NoOkEquality_Init /\ [][NoOkEquality_Next]_vars


----------------------------------------------------------------------------
(* no-ok-equality, as claimed.  The call the fix leaves in the file is read *)
(* back from the text the fix writes.                                       *)

\* a call with a first argument, in a test, of ok, notOk, true or false on
\* the assert variable the test binds or, where the options allow it, bare
IsOkOrNotOkInTest(c) ==
    /\ Live(c)
    /\ TestOf(c) # 0
    /\ nodes[c].ast.type = "CallExpression"
    /\ Len(nodes[c].ast.arguments) > 0
    /\ \E name \in ASSERTIONS_TO_CHECK :
           \/ /\ BoundAssertVar(TestOf(c)) # Null
              /\ nodes[c].ast.callee = Dot(BoundAssertVar(TestOf(c)), name)
           \/ /\ state.options.allowGlobal
              /\ nodes[c].ast.callee = Identifier(name)

IsEqualityComparison(e) ==
    e.type = "BinaryExpression" /\ e.operator \in {"===", "==", "!==", "!="}

\* the assertion the claim suggests for a callee name and an operator
SuggestedFor(name, operator) ==
    LET negated == (name \in NEGATIVE_ASSERTIONS)
                       # (operator \in {"!==", "!="})
    IN IF operator \in {"===", "!=="}
       THEN (IF negated THEN "notStrictEqual" ELSE "strictEqual")
       ELSE (IF negated THEN "notEqual" ELSE "equal")

\* C31 as claimed: an ok, notOk, true or false assertion in a test whose
\* first argument is a ==, ===, != or !== comparison gets exactly one
\* diagnostic; the call its fix leaves is the suggested assertion, negated
\* exactly when one of callee and operator is negative, with the left
\* operand, the right operand and then the remaining arguments in order;
\* with any other first argument nothing is reported.
C31_OkEquality ==
    \A c \in 1..Len(nodes) :
        IsOkOrNotOkInTest(c) =>
            LET call == nodes[c].ast
                first == call.arguments[1]
                mine == ReportsOnNode(c)
            IN IF IsEqualityComparison(first)
               THEN /\ Len(mine) = 1
                    /\ LET fixed == ParseAnyCall(mine[1].fix)
                       IN /\ CalleeName(fixed) =
                                 SuggestedFor(CalleeName(call),
                                              first.operator)
                          /\ fixed.arguments =
                                 <<first.left, first.right>>
                                     \o Tail(call.arguments)
               ELSE mine = <<>>


----------------------------------------------------------------------------
(* lib/rules/no-qunit-start-in-tests.js *)

contextStack == state.contextStack

\* isQUnitStart without the test of the callee's type
isQUnitStart_AnyStart(calleeNode) == isStart(calleeNode)

isQUnitStart(calleeNode) ==
    calleeNode.type = "MemberExpression" /\ isStart(calleeNode)

\* The files of the specification: tests, module calls and another call
\* with an options object, and calls of QUnit.start, of start, of start on
\* another object and of QUnit.stop, in the file itself and in the
\* callbacks of tests and of properties.
NoQUnitStart_Calls ==
    {TestCall(Dot("QUnit", "test"), <<Identifier("assert")>>),
     CallExpression(Identifier("module"),
         <<Literal("string", "m"), [type |-> "ObjectExpression"]>>),
     CallExpression(Identifier("foo"), <<[type |-> "ObjectExpression"]>>),
     CallExpression(Dot("QUnit", "start"), <<>>),
     CallExpression(Identifier("start"), <<>>),
     CallExpression(Dot("other", "start"), <<>>),
     CallExpression(Dot("QUnit", "stop"), <<>>)}

NoQUnitStart_Init ==
    /\ WalkInit("no-qunit-start-in-tests")
    /\ state = [contextStack |-> <<>>]

NoQUnitStart_CallExpression ==
    \E node \in NoQUnitStart_Calls :
        /\ ResolveAsync_InBody
        /\ Enter(NewNode(node, StatementIn("ExpressionStatement")),
                 MaxNodesNoQUnitStart, MaxDepthNoQUnitStart)
        /\ IF isTest(node.callee)
           THEN /\ state' = [contextStack |-> Append(contextStack, "test")]
                /\ UNCHANGED reports
           ELSE IF Len(contextStack) > 0 /\ isQUnitStart(node.callee)
           THEN /\ reports' = Append(reports,
                       [node |-> Len(nodes) + 1,
                        messageId |-> "noQUnitStartInTests",
                        data |-> [context |->
                                     contextStack[Len(contextStack)]]])
                /\ UNCHANGED state
           ELSE UNCHANGED <<state, reports>>
        /\ UNCHANGED crashed

NoQUnitStart_Property ==
    \E key \in {"beforeEach", "after", "helper"},
       between \in {<<"ObjectExpression">>,
                    <<"ObjectExpression", "Property", "ObjectExpression">>} :
        LET nd == NewNode(Property(Identifier(key), FunctionExpression(<<>>)),
                          between)
        IN /\ ResolveAsync_InObject
           /\ Enter(nd, MaxNodesNoQUnitStart, MaxDepthNoQUnitStart)
           /\ state' = [contextStack |->
                IF /\ isModuleHookPropertyKey(nd.ast.key)
                   /\ isInModule(nd)
                   /\ nd.ast.key.type = "Identifier"
                THEN Append(contextStack, nd.ast.key.name \o " hook")
                ELSE contextStack]
           /\ UNCHANGED <<reports, crashed>>

NoQUnitStart_CallExpressionExit ==
    /\ Leave
    /\ Leaving.ast.type = "CallExpression"
    /\ state' = [contextStack |->
                    IF isTest(Leaving.ast.callee)
                    THEN Pop(contextStack) ELSE contextStack]
    /\ UNCHANGED <<reports, crashed>>

NoQUnitStart_PropertyExit ==
    /\ Leave
    /\ Leaving.ast.type = "Property"
    /\ state' = [contextStack |->
                    IF isModuleHookPropertyKey(Leaving.ast.key)
                           /\ isInModule(Leaving)
                    THEN Pop(contextStack) ELSE contextStack]
    /\ UNCHANGED <<reports, crashed>>

NoQUnitStart_Next ==
    \/ NoQUnitStart_CallExpression
    \/ NoQUnitStart_Property
    \/ NoQUnitStart_CallExpressionExit
    \/ NoQUnitStart_PropertyExit

SpecNoQUnitStart == NoQUnitStart_Init /\ [][NoQUnitStart_Next]_vars


----------------------------------------------------------------------------
(* no-qunit-start-in-tests, as claimed. *)

\* the tests and the hooks of a module's options object that node c lies in
OpenFrames(c) == {f \in AncestorsOf(c) : IsTestCall(f) \/ IsHook(f)}

InnermostFrame(c) ==
    CHOOSE f \in OpenFrames(c) : \A g \in OpenFrames(c) : f >= g

ContextOf(f) ==
    IF IsTestCall(f) THEN "test" ELSE nodes[f].ast.key.name \o " hook"

\* C32 as claimed: a call is reported if and only if it is a call of
\* QUnit.start() that lies in at least one test or hook of a module's
\* options object, once, with the context of the innermost of them ("test"
\* or "<hookName> hook"); outside every such frame QUnit.start() is not
\* reported, and a bare start() is never reported.
C32_StartInFrame ==
    \A c \in 1..Len(nodes) :
        (Live(c) /\ nodes[c].ast.type = "CallExpression") =>
            ReportsOnNode(c) =
                IF nodes[c].ast.callee = Dot("QUnit", "start")
                       /\ OpenFrames(c) # {}
                THEN <<[node |-> c, messageId |-> "noQUnitStartInTests",
                        data |-> [context |->
                                     ContextOf(InnermostFrame(c))]]>>
                ELSE <<>>

\* QUnit.start() was reported in a hook of a module registered in a test
C32_Witness ==
    \E c \in 1..Len(nodes) :
        /\ Live(c)
        /\ nodes[c].ast = CallExpression(Dot("QUnit", "start"), <<>>)
        /\ \E t, h \in OpenFrames(c) : IsTestCall(t) /\ IsHook(h) /\ t < h
        /\ Len(ReportsOnNode(c)) = 1
        /\ ReportsOnNode(c)[1].data.context = "beforeEach hook"


----------------------------------------------------------------------------
(* lib/rules/no-assert-logical-expression.js *)

\* the diagnostics checkAndReport reports for these arguments, the first
\* ones of the call that gets this id; a diagnostic's node is the argument
checkAndReport(argNodes, id) ==
    LET logical == SelectSeq([k \in 1..Len(argNodes) |-> k],
                       LAMBDA k : argNodes[k].type = "LogicalExpression")
    IN [j \in 1..Len(logical) |->
           [node |-> [call |-> id, argument |-> logical[j]],
            messageId |-> "noLogicalOperator",
            data |-> [operator |-> argNodes[logical[j]].operator]]]

\* The files of the specification: tests with and without an assert
\* parameter, nested and in sequence, and calls of ok, equal and throws on
\* assert, of ok bare and on another object and of a method that is no
\* assertion, with one to three arguments that are names, && and ||
\* expressions and a message.
NoLogical_Calls ==
    LET operands == {Identifier("a"),
                     LogicalExpression("&&", Identifier("a"),
                                       Identifier("b")),
                     LogicalExpression("||", Identifier("a"),
                                       Identifier("b"))}
        last == {LogicalExpression("||", Identifier("a"), Identifier("b")),
                 Literal("string", "msg")}
        arguments == {<<x>> : x \in operands}
                     \cup {<<x, y>> : x \in operands, y \in operands \cup last}
                     \cup {<<x, y, z>> :
                             x \in {Identifier("a")}, y \in operands,
                             z \in last}
    IN {TestCall(Dot("QUnit", "test"), <<Identifier("assert")>>),
        TestCall(Identifier("test"), <<>>)}
       \cup {CallExpression(callee, args) :
               callee \in {Dot("assert", "ok"), Dot("assert", "equal"),
                           Dot("assert", "throws"), Identifier("ok"),
                           Dot("t", "ok"), Dot("assert", "foo")},
               args \in arguments}

NoLogical_Init ==
    /\ WalkInit("no-assert-logical-expression")
    /\ state = [testStack |-> <<>>]

NoLogical_CallExpression ==
    \E node \in NoLogical_Calls :
        LET testStack_ == state.testStack
            \* getAssertVar
            assertVar == IF Len(testStack_) > 0
                         THEN testStack_[Len(testStack_)].assertContextVar
                         ELSE Null
            assertContextVar == getAssertContextNameForTest(node.arguments)
            countNonMessageArgs ==
                MathMax(getAllowedArities(node.callee, assertVar))
            \* node.arguments.slice(0, countNonMessageArgs)
            sliced ==
                SubSeq(node.arguments, 1,
                       IF countNonMessageArgs < Len(node.arguments)
                       THEN countNonMessageArgs ELSE Len(node.arguments))
        IN /\ InCallbackOrFile
           /\ Enter(NewNode(node, StatementIn("ExpressionStatement")),
                    MaxNodesNoLogical, MaxDepthNoLogical)
           /\ IF isTest(node.callee)
              THEN /\ state' = [testStack |->
                          IF assertContextVar = Null THEN testStack_
                          ELSE Append(testStack_,
                                   [assertContextVar |-> assertContextVar])]
                   /\ UNCHANGED reports
              ELSE IF assertVar # Null
                          /\ utils_isAssertion(node.callee, assertVar)
              THEN /\ reports' = reports \o
                          checkAndReport(sliced, Len(nodes) + 1)
                   /\ UNCHANGED state
              ELSE UNCHANGED <<state, reports>>
           /\ UNCHANGED crashed

NoLogical_CallExpressionExit ==
    /\ Leave
    /\ state' = [testStack |->
                    IF isTest(Leaving.ast.callee)
                    THEN Pop(state.testStack) ELSE state.testStack]
    /\ UNCHANGED <<reports, crashed>>

NoLogical_Next ==
    \/ NoLogical_CallExpression
    \/ NoLogical_CallExpressionExit

SpecNoLogical == NoLogical_Init /\ [][NoLogical_Next]_vars

----------------------------------------------------------------------------
(* no-assert-logical-expression, as claimed. *)

\* the largest number of arguments, the message aside, the assertion a call
\* names may be given
MaxNonMessageArity(call) ==
    MathMax(ASSERTION_METADATA[
                CHOOSE i \in 1..Len(ASSERTION_METADATA) :
                    ASSERTION_METADATA[i].key = call.callee.property.name
            ].value.allowedArities)

\* C33 as claimed: in a test, an argument of an assertion call is reported,
\* once and with its operator, exactly when it is an && or || expression
\* within the assertion's largest number of arguments other than the
\* message; a logical expression in the message position is not reported.
C33_LogicalArguments ==
    \A c \in 1..Len(nodes) :
        IsAssertionOfTest(c) =>
            \A k \in 1..Len(nodes[c].ast.arguments) :
                LET arg == nodes[c].ast.arguments[k]
                    mine == SelectSeq(reports, LAMBDA r :
                                r.node = [call |-> c, argument |-> k])
                IN IF arg.type = "LogicalExpression"
                          /\ k <= MaxNonMessageArity(nodes[c].ast)
                   THEN /\ Len(mine) = 1
                        /\ mine[1].data.operator = arg.operator
                   ELSE mine = <<>>


----------------------------------------------------------------------------
(* The rules that assert a test on their stack before they read the assert  *)
(* variable it binds: no-assert-equal, no-assert-equal-boolean and          *)
(* literal-compare-order above, and require-object-in-propequal,            *)
(* no-throws-string and no-loose-assertions (utils.createAssertionCheck     *)
(* with the default assertions) here.  A failed assertion throws: crashed.  *)

\* The files of the three rules modelled here: tests with and without an
\* assert parameter and an asyncTest, nested and in sequence, and calls of
\* propEqual, throws, equal and ok on assert, bare and on another object,
\* with one to three arguments, in the tests and in the file itself.
AssertingRules_Calls ==
    {TestCall(Dot("QUnit", "test"), <<Identifier("assert")>>),
     TestCall(Identifier("test"), <<>>),
     TestCall(Identifier("asyncTest"), <<Identifier("assert")>>)}
    \cup {CallExpression(callee, args) :
            callee \in {Dot("assert", "propEqual"), Identifier("propEqual"),
                        Dot("assert", "throws"), Identifier("throws"),
                        Dot("assert", "equal"), Identifier("ok"),
                        Dot("t", "propEqual"), Dot("t", "throws")},
            args \in {<<Identifier("a")>>,
                      <<Identifier("a"), Literal("string", "msg")>>,
                      <<Identifier("a"), Literal("string", "msg"),
                        Literal("string", "msg")>>}}

AssertingRules_Init ==
    /\ \E name \in {"no-assert-equal", "no-assert-equal-boolean",
                    "require-object-in-propequal", "literal-compare-order",
                    "no-throws-string", "no-loose-assertions"} :
           WalkInit(name)
    /\ state = [testStack |-> <<>>]

\* lib/rules/require-object-in-propequal.js
RequireObject_CallExpression ==
    \E node \in AssertingRules_Calls :
        LET testStack_ == state.testStack
            \* isAssertPropEqual up to its call of
            \* getCurrentAssertContextVariable
            readsAssertVar ==
                /\ node.callee.type = "MemberExpression"
                /\ node.callee.property.type = "Identifier"
                /\ node.callee.property.name = "propEqual"
                /\ node.callee.object.type = "Identifier"
            isGlobalPropEqual ==
                /\ node.callee.type = "Identifier"
                /\ node.callee.name = "propEqual"
            isPropEqual ==
                \/ /\ readsAssertVar
                   /\ node.callee.object.name
                          = testStack_[Len(testStack_)].assertVar
                \/ isGlobalPropEqual
            hasNonObjectExpectedValue ==
                /\ Len(node.arguments) >= 2
                /\ node.arguments[2].type \in
                       {"Literal", "TemplateLiteral", "JSXElement",
                        "UpdateExpression", "UnaryExpression"}
        IN /\ rule = "require-object-in-propequal"
           /\ InCallbackOrFile
           /\ Enter(NewNode(node, StatementIn("ExpressionStatement")),
                    MaxNodesAssertingRules, MaxDepthAssertingRules)
           /\ IF isTest(node.callee) \/ isAsyncTest(node.callee)
              THEN /\ state' = [testStack |->
                        Append(testStack_,
                            [assertVar |->
                                 getAssertContextNameForTest(
                                     node.arguments)])]
                   /\ UNCHANGED <<reports, crashed>>
              ELSE IF Len(testStack_) > 0
              THEN IF readsAssertVar /\ Len(testStack_) = 0
                   THEN crashed' = TRUE /\ UNCHANGED <<state, reports>>
                   ELSE /\ reports' =
                             IF isPropEqual /\ hasNonObjectExpectedValue
                             THEN Append(reports,
                                      [node |-> Len(nodes) + 1,
                                       messageId |-> "useObject",
                                       data |-> [value |->
                                           getText(node.arguments[2])]])
                             ELSE reports
                        /\ UNCHANGED <<state, crashed>>
              ELSE UNCHANGED <<state, reports, crashed>>

RequireObject_CallExpressionExit ==
    /\ rule = "require-object-in-propequal"
    /\ Leave
    /\ state' = [testStack |->
                    IF isTest(Leaving.ast.callee)
                           \/ isAsyncTest(Leaving.ast.callee)
                    THEN Pop(state.testStack) ELSE state.testStack]
    /\ UNCHANGED <<reports, crashed>>

\* lib/rules/no-throws-string.js
NoThrowsString_CallExpression ==
    \E node \in AssertingRules_Calls :
        LET testStack_ == state.testStack
            \* getAssertVar(testStack), past its assertion
            assertVar == testStack_[Len(testStack_)].assertVar
            isThrows ==
                IF node.callee.type = "MemberExpression"
                THEN /\ node.callee.object.type = "Identifier"
                     /\ node.callee.object.name = assertVar
                     /\ node.callee.property.type = "Identifier"
                     /\ node.callee.property.name \in {"throws", "raises"}
                ELSE IF node.callee.type = "Identifier"
                THEN node.callee.name = "throws"
                ELSE FALSE
            \* checkAndReport
            args == node.arguments
            checked ==
                IF /\ Len(args) > 2
                   /\ args[2].type = "Literal"
                   /\ args[2].kind = "string"
                THEN <<[node |-> Len(nodes) + 1,
                        messageId |-> "noThrowsWithString",
                        data |-> [callee |-> getText(node.callee)]]>>
                ELSE <<>>
        IN /\ rule = "no-throws-string"
           /\ InCallbackOrFile
           /\ Enter(NewNode(node, StatementIn("ExpressionStatement")),
                    MaxNodesAssertingRules, MaxDepthAssertingRules)
           /\ IF isTest(node.callee)
              THEN /\ state' = [testStack |->
                        Append(testStack_,
                            [assertVar |->
                                 getAssertContextNameForTest(
                                     node.arguments)])]
                   /\ UNCHANGED <<reports, crashed>>
              ELSE IF Len(testStack_) > 0
              THEN \* getAssertVar is called, and its assertion fails on
                   \* an empty stack
                   IF Len(testStack_) = 0
                   THEN crashed' = TRUE /\ UNCHANGED <<state, reports>>
                   ELSE /\ reports' = IF isThrows THEN reports \o checked
                                      ELSE reports
                        /\ UNCHANGED <<state, crashed>>
              ELSE UNCHANGED <<state, reports, crashed>>

NoThrowsString_CallExpressionExit ==
    /\ rule = "no-throws-string"
    /\ Leave
    /\ state' = [testStack |->
                    IF isTest(Leaving.ast.callee)
                    THEN Pop(state.testStack) ELSE state.testStack]
    /\ UNCHANGED <<reports, crashed>>

\* utils.createAssertionCheck, as lib/rules/no-loose-assertions.js creates
\* it without options: the assertions equal, ok, notEqual and notOk, each
\* with the two message ids
NoLooseAssertions_CallExpression ==
    \E node \in AssertingRules_Calls :
        LET testStack_ == state.testStack
            assertions == {"equal", "ok", "notEqual", "notOk"}
            isGlobalAssertion ==
                /\ node.callee.type = "Identifier"
                /\ node.callee.name \in assertions
            \* isMethodCalledOnLocalAssertObject up to its call of
            \* getCurrentAssertContextVariable
            readsAssertVar ==
                /\ node.callee.type = "MemberExpression"
                /\ node.callee.property.type = "Identifier"
                /\ node.callee.property.name \in assertions
                /\ node.callee.object.type = "Identifier"
            isExpectedAssertion ==
                \/ isGlobalAssertion
                \/ /\ readsAssertVar
                   /\ node.callee.object.name
                          = testStack_[Len(testStack_)].assertVar
            \* reportError, which calls getCurrentAssertContextVariable too
            assertVar == testStack_[Len(testStack_)].assertVar
            assertion == IF isGlobalAssertion THEN node.callee.name
                         ELSE node.callee.property.name
            reported ==
                [node |-> Len(nodes) + 1,
                 messageId |-> IF isGlobalAssertion
                               THEN "unexpectedGlobalLooseAssertion"
                               ELSE "unexpectedLocalLooseAssertion",
                 data |-> [assertVar |-> IF assertVar = Null THEN ""
                                         ELSE assertVar,
                           assertion |-> assertion]]
        IN /\ rule = "no-loose-assertions"
           /\ InCallbackOrFile
           /\ Enter(NewNode(node, StatementIn("ExpressionStatement")),
                    MaxNodesAssertingRules, MaxDepthAssertingRules)
           /\ IF isTest(node.callee) \/ isAsyncTest(node.callee)
              THEN /\ state' = [testStack |->
                        Append(testStack_,
                            [assertVar |->
                                 getAssertContextNameForTest(
                                     node.arguments)])]
                   /\ UNCHANGED <<reports, crashed>>
              ELSE IF Len(testStack_) > 0
              THEN IF (isGlobalAssertion \/ readsAssertVar)
                          /\ Len(testStack_) = 0
                   THEN crashed' = TRUE /\ UNCHANGED <<state, reports>>
                   ELSE /\ reports' = IF isExpectedAssertion
                                      THEN Append(reports, reported)
                                      ELSE reports
                        /\ UNCHANGED <<state, crashed>>
              ELSE UNCHANGED <<state, reports, crashed>>

NoLooseAssertions_CallExpressionExit ==
    /\ rule = "no-loose-assertions"
    /\ Leave
    /\ state' = [testStack |->
                    IF isTest(Leaving.ast.callee)
                           \/ isAsyncTest(Leaving.ast.callee)
                    THEN Pop(state.testStack) ELSE state.testStack]
    /\ UNCHANGED <<reports, crashed>>

AssertingRules_Next ==
    \/ rule = "no-assert-equal" /\ NoAssertEqual_Next
    \/ rule = "no-assert-equal-boolean" /\ NoAssertEqualBoolean_Next
    \/ rule = "literal-compare-order" /\ LiteralCompareOrder_Next
    \/ RequireObject_CallExpression
    \/ RequireObject_CallExpressionExit
    \/ NoThrowsString_CallExpression
    \/ NoThrowsString_CallExpressionExit
    \/ NoLooseAssertions_CallExpression
    \/ NoLooseAssertions_CallExpressionExit

SpecAssertingRules == AssertingRules_Init /\ [][AssertingRules_Next]_vars

----------------------------------------------------------------------------
(* The asserted stack, as claimed. *)

\* the open calls that the rule pushes a frame for
OpenTestFrames ==
    {k \in 1..Len(ancestors) :
        LET callee == nodes[ancestors[k]].ast.callee
        IN IF rule \in {"literal-compare-order", "no-throws-string"}
           THEN isTest(callee)
           ELSE isTest(callee) \/ isAsyncTest(callee)}

\* C34 as claimed: in no-assert-equal, no-assert-equal-boolean,
\* require-object-in-propequal, literal-compare-order, no-throws-string and
\* no-loose-assertions the assertion of a non-empty stack never fails, in
\* the handlers or in a fix: nothing is thrown, and the stack, which is read
\* only when it is not empty, holds one frame for each open test.
C34_StackAssertionHolds ==
    /\ ~crashed
    /\ Len(state.testStack) = Cardinality(OpenTestFrames)

\* no-assert-equal-boolean has reported an assertion on the assert variable
\* of the open test, reading the stack top for the callee and for the fix
C34_Witness ==
    /\ rule = "no-assert-equal-boolean"
    /\ ~crashed
    /\ Len(state.testStack) > 0
    /\ \E r \in 1..Len(reports) :
           /\ reports[r].node = Top(ancestors)
           /\ Leaving.ast.callee.type = "MemberExpression"
           /\ Leaving.ast.callee.object.name
                  = state.testStack[Len(state.testStack)].assertVar

====
